---- MODULE Spec2Model ----
(***************************************************************************)
(* Stock accounting of the sales and products routers.                     *)
(*                                                                         *)
(* The committed database (products, sales) is shared by the requests in   *)
(* flight.  A request runs on one pooled connection; every store call of   *)
(* its handler is a point where another request may run.  A SELECT outside *)
(* a transaction reads the committed rows; the first INSERT/UPDATE/DELETE  *)
(* of a connection opens a transaction that holds the store's single       *)
(* writer lock until that connection commits or rolls back.                *)
(*                                                                         *)
(* Consecutive statements that a handler executes while it already holds   *)
(* the writer lock are one step: no other connection can commit between    *)
(* them, and their effect is invisible until the commit, which is a step   *)
(* of its own.                                                             *)
(***************************************************************************)
EXTENDS Integers, FiniteSets, TLC

\* ---------------------------------------------------------------- bounds
\* Requests handled concurrently.
NSlots == 2
\* Requests accepted in one behaviour.
MaxReq == 2
\* Largest sale quantity / stock delta / initial stock a request carries.
MaxQty == 2
\* Largest expected version a request supplies.
MaxVerArg == 2
\* sqlite3's Connection.total_changes is only ever compared with 0: the
\* model counts it up to this cap.
TCCap == 1

Slots == 1..NSlots
Conns == 1..NSlots
Users == {1, 2}
Names == {"A", "B"}
PIds == 1..4
SIds == 1..(MaxReq + 1)

\* Encodings of None / absent values.
NoId == 0
NoConn == 0
NoName == ""
NoQty == 0
NoVer == 0
NoStock == -1

\* current_action values, NULL, and the absent online_users row.
Actions == {"view", "edit"}
NoAction == ""
NoOnline == [exists |-> FALSE, current_action |-> NoAction]

\* A row id never used, and a row id whose row has been deleted.  The sale
\* fields by, pid0, q0, s0, v1 are history, not columns: the request that
\* inserted the row, the product it sold from, the quantity it sold, and that
\* product's stock before and version after the insert.
NoProduct == [exists |-> FALSE, used |-> FALSE, userId |-> 0, name |-> NoName,
              stock |-> 0, version |-> 0]
NoSale == [exists |-> FALSE, used |-> FALSE, userId |-> 0, productName |-> NoName,
           quantity |-> 0, by |-> 0, pid0 |-> 0, q0 |-> 0, s0 |-> 0, v1 |-> 0]
DeletedProduct == [NoProduct EXCEPT !.used = TRUE]
DeletedSale == [NoSale EXCEPT !.used = TRUE]

IdleReq == [pc |-> "idle", op |-> "none", no |-> 0, userId |-> 0,
            id |-> NoId, name |-> NoName, qty |-> NoQty, stock |-> NoStock,
            ver |-> NoVer, other |-> FALSE, action |-> "",
            conn |-> NoConn,
            pid |-> NoId, cstock |-> 0, cver |-> NoVer,
            oldq |-> NoQty, oldname |-> NoName, sid |-> NoId, opid |-> NoId,
            out |-> "none", rstock |-> 0, rver |-> NoVer]

VARIABLES
    products,   \* committed rows of table products: id -> row
    sales,      \* committed rows of table sales: id -> row
    wlock,      \* connection whose transaction holds the writer lock, or NoConn
    txp,        \* products as seen inside the open transaction (= products when none)
    txs,        \* sales as seen inside the open transaction (= sales when none)
    tc,         \* conn -> total_changes of the connection (capped at TCCap)
    req,        \* slot -> the request it handles: arguments, locals, position, outcome
    started,    \* number of requests accepted so far
    nSucc,      \* product id -> number of mutations of it that returned success
    online_users,   \* committed rows of table online_users: userId -> row
    txo         \* online_users as seen inside the open transaction

vars == <<products, sales, wlock, txp, txs, tc, req, started, nSucc, online_users, txo>>

\* ---------------------------------------------------------------- store
Min(a, b) == IF a < b THEN a ELSE b

\* Rows a SELECT on connection c sees: its own uncommitted writes if it is
\* inside a transaction, the committed rows otherwise.
ViewP(c) == IF wlock = c THEN txp ELSE products
ViewS(c) == IF wlock = c THEN txs ELSE sales

\* A write statement on connection c is refused (database is locked) while
\* another connection's transaction holds the writer lock.
CanWrite(c) == wlock \in {NoConn, c}

FreeConns == Conns \ {req[s].conn : s \in Slots}

\* Variant of MatchByName whose WHERE clause leaves out the userId.
MatchByName_AnyUser(P, u, n) == {p \in PIds : P[p].exists /\ P[p].name = n}

\* SELECT ... FROM products WHERE userId = ? AND name = ?  (fetchone)
MatchByName(P, u, n) == {p \in PIds : P[p].exists /\ P[p].userId = u /\ P[p].name = n}
LookupByName(P, u, n) ==
    IF MatchByName(P, u, n) = {} THEN NoId
    ELSE CHOOSE p \in MatchByName(P, u, n) : \A q \in MatchByName(P, u, n) : p <= q

\* Variant of OwnedProduct whose WHERE clause leaves out the userId.
OwnedProduct_AnyOwner(P, p, u) == p \in PIds /\ P[p].exists

\* SELECT ... FROM products WHERE id = ? AND userId = ?
OwnedProduct(P, p, u) == p \in PIds /\ P[p].exists /\ P[p].userId = u

\* Variant of OwnedSale whose WHERE clause leaves out the userId.
OwnedSale_AnyOwner(S, i, u) == i \in SIds /\ S[i].exists

\* SELECT ... FROM sales WHERE id = ? AND userId = ?
OwnedSale(S, i, u) == i \in SIds /\ S[i].exists /\ S[i].userId = u

\* UPDATE products SET stock = ?, version = version + 1
\*  WHERE id = ? AND userId = ? AND version = ?
CondMatches(P, p, u, v) == OwnedProduct(P, p, u) /\ P[p].version = v
CondUpdate(P, p, u, v, newStock) ==
    IF CondMatches(P, p, u, v)
    THEN [P EXCEPT ![p].stock = newStock, ![p].version = @ + 1]
    ELSE P
RowCount(P, p, u, v) == IF CondMatches(P, p, u, v) THEN 1 ELSE 0

\* lastrowid of an INSERT into a table whose id is AUTOINCREMENT: one more
\* than the largest id the table has ever held.
LastRowId(T, Ids) ==
    IF \A i \in Ids : ~T[i].used THEN 1
    ELSE 1 + (CHOOSE i \in Ids : T[i].used /\ \A j \in Ids : T[j].used => j <= i)

\* total_changes after a statement that changed n rows.
Bump(c, n) == [tc EXCEPT ![c] = Min(@ + n, TCCap)]

\* ---------------------------------------------------------------- init
\* A database the program reaches from the empty one: user 1 has created
\* products A (id 1) and B (id 2), user 2 its own product A (id 3); user 1
\* has sold nothing yet, or has sold q0 of A (sale 1), which took A from
\* stock sa + q0, version 1 to stock sa, version 2.  A has run out or has
\* one unit left, and the sale, if any, was of one unit.  Of the pooled
\* connections, connection 1 has not changed a row yet, the others have.
InitProducts(sa, q0) ==
    [p \in PIds |->
        IF p = 1 THEN [exists |-> TRUE, used |-> TRUE, userId |-> 1, name |-> "A", stock |-> sa,
                       version |-> IF q0 = 0 THEN 1 ELSE 2]
        ELSE IF p = 2 THEN [exists |-> TRUE, used |-> TRUE, userId |-> 1, name |-> "B", stock |-> 1,
                            version |-> 1]
        ELSE IF p = 3 THEN [exists |-> TRUE, used |-> TRUE, userId |-> 2, name |-> "A", stock |-> MaxQty,
                            version |-> 1]
        ELSE NoProduct]

InitSales(sa, q0) ==
    [i \in SIds |->
        IF i = 1 /\ q0 # 0
        THEN [exists |-> TRUE, used |-> TRUE, userId |-> 1, productName |-> "A", quantity |-> q0,
              by |-> 0, pid0 |-> 1, q0 |-> q0, s0 |-> sa + q0, v1 |-> 2]
        ELSE NoSale]

Init ==
    /\ \E sa \in 0..1, q0 \in 0..1 :
         /\ products = InitProducts(sa, q0)
         /\ sales = InitSales(sa, q0)
         /\ nSucc = [p \in PIds |-> IF p = 1 /\ q0 # 0 THEN 1 ELSE 0]
    /\ wlock = NoConn
    /\ txp = products
    /\ txs = sales
    /\ tc = [c \in Conns |-> IF c = 1 THEN 0 ELSE TCCap]
    /\ req = [s \in Slots |-> IdleReq]
    /\ started = 0
    /\ online_users = [u \in Users |-> NoOnline]
    /\ txo = online_users

\* ---------------------------------------------------------------- requests
\* Variant of Finish in which the request keeps its connection.
Finish_KeepConn(r, outcome) == [r EXCEPT !.pc = "done", !.out = outcome]

\* A handler's final step: the outcome is fixed and `with pool.get_connection()`
\* returns the connection to the pool, whatever its transaction state.
Finish(r, outcome) == [r EXCEPT !.pc = "done", !.out = outcome, !.conn = NoConn]

\* The record of a request answered 404: the id it addressed is all that
\* played a role.
NotFound(r) == [IdleReq EXCEPT !.pc = "done", !.out = "NotFound", !.op = r.op,
                               !.no = r.no, !.userId = r.userId, !.id = r.id]

\* A new request enters slot s on a free connection c.
Accept(s, c, operation, u) ==
    [IdleReq EXCEPT !.op = operation, !.no = started + 1, !.userId = u, !.conn = c]

InFlight(s) == req[s].pc \notin {"idle", "done"}

\* The request takes the first slot that handles no request.
AcceptSlots == {s \in Slots : ~InFlight(s) /\ \A s2 \in Slots : s2 < s => InFlight(s2)}

CanAccept(s, c) ==
    /\ s \in AcceptSlots
    /\ started < MaxReq
    /\ c \in FreeConns

\* conn.commit()
CommitStore(c) ==
    IF wlock = c
    THEN /\ products' = txp
         /\ sales' = txs
         /\ wlock' = NoConn
         /\ UNCHANGED <<txp, txs>>
    ELSE UNCHANGED <<products, sales, wlock, txp, txs>>

\* conn.rollback()
RollbackStore(c) ==
    IF wlock = c
    THEN /\ txp' = products
         /\ txs' = sales
         /\ wlock' = NoConn
         /\ UNCHANGED <<products, sales>>
    ELSE UNCHANGED <<products, sales, wlock, txp, txs>>

\* Variant of AbortWrite that re-raises without the rollback.
AbortWrite_NoRollback(c, P1, S1) ==
    /\ txp' = P1
    /\ txs' = S1
    /\ wlock' = c
    /\ UNCHANGED <<products, sales>>

\* Variant of AbortWrite that undoes the sale-row write only.
AbortWrite_SalesOnly(c, P1, S1) ==
    /\ txp' = P1
    /\ txs' = sales
    /\ wlock' = c
    /\ UNCHANGED <<products, sales>>

\* `except HTTPException: conn.rollback(); raise` of a transactional block
\* whose statements had brought the transaction to rows P1, S1.
AbortWrite(c, P1, S1) ==
    /\ txp' = products
    /\ txs' = sales
    /\ wlock' = NoConn
    /\ UNCHANGED <<products, sales>>

\* ---------------------------------------------------------------- create_sale
\* Variant of CsInsufficient with the comparison off by one.
CsInsufficient_OffByOne(stock, q) == stock <= q

\* sales.py 253: the stock does not cover the quantity.
CsInsufficient(stock, q) == stock < q

\* sales.py 236-257: the product lookup and the stock check.
CsRead(s, c, u, n, q) ==
    /\ CanAccept(s, c)
    /\ LET r == [Accept(s, c, "createSale", u) EXCEPT !.name = n, !.qty = q]
           P == ViewP(c)
           p == LookupByName(P, u, n)
       IN  req' = [req EXCEPT ![s] =
                IF p = NoId THEN Finish(r, "InvalidReference")
                ELSE IF CsInsufficient(P[p].stock, q) THEN Finish(r, "InsufficientStock")
                ELSE [r EXCEPT !.pc = "cs_write", !.pid = p,
                               !.cstock = P[p].stock, !.cver = P[p].version]]
    /\ started' = started + 1
    /\ UNCHANGED <<products, sales, wlock, txp, txs, tc, nSucc>>
    /\ UNCHANGED <<online_users, txo>>

\* The sale row create_sale inserts.
NewSale(r) ==
    [exists |-> TRUE, used |-> TRUE, userId |-> r.userId, productName |-> r.name, quantity |-> r.qty,
     by |-> r.no, pid0 |-> r.pid, q0 |-> r.qty, s0 |-> r.cstock, v1 |-> r.cver + 1]

\* Variant of CsNewStock that forgets the quantity.
CsNewStock_Unchanged(r) == r.cstock

\* sales.py 292: the stock create_sale writes.
CsNewStock(r) == r.cstock - r.qty

\* sales.py 272-326: INSERT the sale, then the conditional stock UPDATE.
CsWrite(s) ==
    /\ req[s].pc = "cs_write"
    /\ LET r == req[s]
           c == r.conn
           P == ViewP(c)
           S == ViewS(c)
           i == LastRowId(S, SIds)
           n == RowCount(P, r.pid, r.userId, r.cver)
       IN  IF ~CanWrite(c)
           THEN \* the INSERT raises inside the inner try: rollback, 500
                /\ req' = [req EXCEPT ![s] = Finish(r, "Unexpected")]
                /\ RollbackStore(c)
                /\ UNCHANGED tc
           ELSE /\ i \in SIds
                /\ tc' = Bump(c, IF CsNewStock(r) < 0 THEN 1 ELSE 1 + n)
                /\ IF CsNewStock(r) < 0 \/ n = 0
                   THEN \* HTTPException inside the inner try: rollback, re-raise
                        /\ req' = [req EXCEPT ![s] =
                              Finish(r, IF CsNewStock(r) < 0 THEN "InsufficientStock"
                                        ELSE "VersionConflict")]
                        /\ AbortWrite(c, IF CsNewStock(r) < 0 THEN P
                                          ELSE CondUpdate(P, r.pid, r.userId, r.cver, CsNewStock(r)),
                                       [S EXCEPT ![i] = NewSale(r)])
                   ELSE /\ req' = [req EXCEPT ![s].pc = "cs_commit", ![s].sid = i]
                        /\ txs' = [S EXCEPT ![i] = NewSale(r)]
                        /\ txp' = CondUpdate(P, r.pid, r.userId, r.cver, CsNewStock(r))
                        /\ wlock' = c
                        /\ UNCHANGED <<products, sales>>
    /\ UNCHANGED <<started, nSucc>>
    /\ UNCHANGED <<online_users, txo>>

\* sales.py 315: conn.commit()
CsCommit(s) ==
    /\ req[s].pc = "cs_commit"
    /\ CommitStore(req[s].conn)
    /\ req' = [req EXCEPT ![s].pc = "cs_fetch"]
    /\ UNCHANGED <<tc, started, nSucc>>
    /\ UNCHANGED <<online_users, txo>>

\* sales.py 328-361: re-read the sale by id and build the response; a row
\* that is gone makes row[0] raise, which the outer handler turns into 500.
CsFetch(s) ==
    /\ req[s].pc = "cs_fetch"
    /\ LET r == req[s]
           S == ViewS(r.conn)
       IN  IF S[r.sid].exists
           THEN /\ req' = [req EXCEPT ![s] = Finish(r, "ok")]
                /\ nSucc' = [nSucc EXCEPT ![r.pid] = @ + 1]
           ELSE /\ req' = [req EXCEPT ![s] = Finish(r, "Unexpected")]
                /\ UNCHANGED nSucc
    /\ UNCHANGED <<products, sales, wlock, txp, txs, tc, started>>
    /\ UNCHANGED <<online_users, txo>>

\* ---------------------------------------------------------------- update_sale
\* sales.py 403-422: read the sale row.
UsReadSale(s, c, u, i, n, q, o) ==
    /\ CanAccept(s, c)
    /\ LET r == [Accept(s, c, "updateSale", u) EXCEPT
                    !.id = i, !.name = n, !.qty = q, !.other = o]
           S == ViewS(c)
       IN  req' = [req EXCEPT ![s] =
                IF ~OwnedSale(S, i, u) THEN NotFound(r)
                ELSE [r EXCEPT !.pc = "us_read_product",
                               !.oldq = S[i].quantity, !.oldname = S[i].productName]]
    /\ started' = started + 1
    /\ UNCHANGED <<products, sales, wlock, txp, txs, tc, nSucc>>
    /\ UNCHANGED <<online_users, txo>>

\* Variant of UsNewQuantity that does not fall back on the stored quantity.
UsNewQuantity_NoDefault(r) == r.qty

\* sales.py 425-426, 429, 459
UsNewQuantity(r) == IF r.qty # NoQty THEN r.qty ELSE r.oldq
UsNameChanged(r) == r.name # NoName /\ r.name # r.oldname
UsResolvedName(r) == IF UsNameChanged(r) THEN r.name ELSE r.oldname
UsQuantityDiff(r) == r.oldq - UsNewQuantity(r)

\* Variant of UsInsufficient that forgets the quantity already sold.
UsInsufficient_OldQuantityIgnored(stock, r) ==
    UsNewQuantity(r) > r.oldq /\ stock < UsNewQuantity(r)

\* sales.py 462-464: the stock does not cover the additional quantity.
UsInsufficient(stock, r) ==
    UsNewQuantity(r) > r.oldq /\ stock < UsNewQuantity(r) - r.oldq

\* Variant of UsReadProduct that answers a missing product with 404.
UsReadProduct_MissingIs404(s) ==
    /\ req[s].pc = "us_read_product"
    /\ LET r == req[s]
           P == ViewP(r.conn)
           p == LookupByName(P, r.userId, UsResolvedName(r))
       IN  req' = [req EXCEPT ![s] =
                IF p = NoId THEN Finish(r, "NotFound")
                ELSE IF UsInsufficient(P[p].stock, r) THEN Finish(r, "InsufficientStock")
                ELSE [r EXCEPT !.pc = "us_write", !.pid = p,
                               !.cstock = P[p].stock, !.cver = P[p].version]]
    /\ UNCHANGED <<products, sales, wlock, txp, txs, tc, started, nSucc>>
    /\ UNCHANGED <<online_users, txo>>

\* sales.py 428-468: resolve the product and check the additional stock.
UsReadProduct(s) ==
    /\ req[s].pc = "us_read_product"
    /\ LET r == req[s]
           P == ViewP(r.conn)
           p == LookupByName(P, r.userId, UsResolvedName(r))
       IN  req' = [req EXCEPT ![s] =
                IF p = NoId THEN Finish(r, "InvalidReference")
                ELSE IF UsInsufficient(P[p].stock, r) THEN Finish(r, "InsufficientStock")
                ELSE [r EXCEPT !.pc = "us_write", !.pid = p,
                               !.cstock = P[p].stock, !.cver = P[p].version]]
    /\ UNCHANGED <<products, sales, wlock, txp, txs, tc, started, nSucc>>
    /\ UNCHANGED <<online_users, txo>>

\* Variant of UsEditSale that leaves the stored quantity as it is.
UsEditSale_QuantityKept(S, r) ==
    IF OwnedSale(S, r.id, r.userId)
    THEN [S EXCEPT ![r.id].productName = IF r.name # NoName THEN r.name ELSE @]
    ELSE S

\* sales.py 489-528: UPDATE sales SET <supplied fields> WHERE id = ? AND userId = ?
UsEditSale(S, r) ==
    IF OwnedSale(S, r.id, r.userId)
    THEN [S EXCEPT ![r.id].productName = IF r.name # NoName THEN r.name ELSE @,
                   ![r.id].quantity = IF r.qty # NoQty THEN r.qty ELSE @]
    ELSE S

\* Variant of UsNewStock with the sign of the difference reversed.
UsNewStock_Reversed(r) == r.cstock - UsQuantityDiff(r)

\* sales.py 535: the stock update_sale writes to the resolved product.
UsNewStock(r) == r.cstock + UsQuantityDiff(r)

\* Variant of UsOldProduct that restores to the resolved product when the
\* old one is gone.
UsOldProduct_FallbackToNew(P, r) ==
    IF UsQuantityDiff(r) # 0 /\ UsNameChanged(r)
    THEN (IF MatchByName(P, r.userId, r.oldname) = {} THEN r.pid
          ELSE LookupByName(P, r.userId, r.oldname))
    ELSE NoId

\* sales.py 543-566: the old product whose stock is restored (NoId: none).
UsOldProduct(P, r) ==
    IF UsQuantityDiff(r) # 0 /\ UsNameChanged(r)
    THEN LookupByName(P, r.userId, r.oldname) ELSE NoId

\* sales.py 552-560: restore the old quantity to the old product, by the
\* version just read inside the transaction.
UsRestoreOld(P, r) ==
    LET o == UsOldProduct(P, r)
    IN  IF o = NoId THEN P
        ELSE CondUpdate(P, o, r.userId, P[o].version, P[o].stock + r.oldq)

\* sales.py 483-596: the transactional block of update_sale.
UsWrite(s) ==
    /\ req[s].pc = "us_write"
    /\ LET r == req[s]
           c == r.conn
           P == ViewP(c)
           S == ViewS(c)
           o == UsOldProduct(P, r)
           nSale == IF OwnedSale(S, r.id, r.userId) THEN 1 ELSE 0
           nOld == IF o = NoId THEN 0 ELSE 1
           P1 == UsRestoreOld(P, r)
           nNew == IF UsQuantityDiff(r) = 0 THEN 0
                   ELSE RowCount(P1, r.pid, r.userId, r.cver)
           \* total_changes as tested at line 562
           tcOld == Min(tc[c] + nSale + nOld, TCCap)
           fail == IF UsQuantityDiff(r) = 0 THEN "none"
                   ELSE IF UsNewStock(r) < 0 THEN "InsufficientStock"
                   ELSE IF o # NoId /\ tcOld = 0 THEN "VersionConflict"
                   ELSE IF nNew = 0 THEN "VersionConflict"
                   ELSE "none"
       IN  IF r.name = NoName /\ r.qty = NoQty /\ ~r.other
           THEN \* no field supplied: 400 raised inside the inner try
                /\ req' = [req EXCEPT ![s] = Finish(r, "InvalidRequest")]
                /\ RollbackStore(c)
                /\ UNCHANGED tc
           ELSE IF ~CanWrite(c)
           THEN /\ req' = [req EXCEPT ![s] = Finish(r, "Unexpected")]
                /\ RollbackStore(c)
                /\ UNCHANGED tc
           ELSE IF fail # "none"
           THEN /\ req' = [req EXCEPT ![s] = Finish(r, fail)]
                /\ tc' = Bump(c, nSale + (IF UsNewStock(r) < 0 THEN 0 ELSE nOld))
                /\ AbortWrite(c, IF UsNewStock(r) < 0 THEN P ELSE P1, UsEditSale(S, r))
           ELSE /\ req' = [req EXCEPT ![s].pc = "us_commit", ![s].opid = o]
                /\ tc' = Bump(c, nSale + nOld + nNew)
                /\ txs' = UsEditSale(S, r)
                /\ txp' = IF UsQuantityDiff(r) = 0 THEN P
                          ELSE CondUpdate(P1, r.pid, r.userId, r.cver, UsNewStock(r))
                /\ wlock' = c
                /\ UNCHANGED <<products, sales>>
    /\ UNCHANGED <<started, nSucc>>
    /\ UNCHANGED <<online_users, txo>>

\* sales.py 585: conn.commit()
UsCommit(s) ==
    /\ req[s].pc = "us_commit"
    /\ CommitStore(req[s].conn)
    /\ req' = [req EXCEPT ![s].pc = "us_fetch"]
    /\ UNCHANGED <<tc, started, nSucc>>
    /\ UNCHANGED <<online_users, txo>>

\* sales.py 598-628: re-read the sale by id and build the response.
UsFetch(s) ==
    /\ req[s].pc = "us_fetch"
    /\ LET r == req[s]
           S == ViewS(r.conn)
       IN  IF S[r.id].exists
           THEN /\ req' = [req EXCEPT ![s] = Finish(r, "ok")]
                /\ nSucc' = [p \in PIds |->
                      IF UsQuantityDiff(r) # 0 /\ p \in {r.pid, r.opid}
                      THEN nSucc[p] + 1 ELSE nSucc[p]]
           ELSE /\ req' = [req EXCEPT ![s] = Finish(r, "Unexpected")]
                /\ UNCHANGED nSucc
    /\ UNCHANGED <<products, sales, wlock, txp, txs, tc, started>>
    /\ UNCHANGED <<online_users, txo>>

\* ---------------------------------------------------------------- delete_sale
\* sales.py 668-686: read the sale row.
DsReadSale(s, c, u, i) ==
    /\ CanAccept(s, c)
    /\ LET r == [Accept(s, c, "deleteSale", u) EXCEPT !.id = i]
           S == ViewS(c)
       IN  req' = [req EXCEPT ![s] =
                IF ~OwnedSale(S, i, u) THEN NotFound(r)
                ELSE [r EXCEPT !.pc = "ds_read_product",
                               !.oldq = S[i].quantity, !.oldname = S[i].productName]]
    /\ started' = started + 1
    /\ UNCHANGED <<products, sales, wlock, txp, txs, tc, nSucc>>
    /\ UNCHANGED <<online_users, txo>>

\* sales.py 688-699: look the product up by the sale's product name.
DsReadProduct(s) ==
    /\ req[s].pc = "ds_read_product"
    /\ LET r == req[s]
           P == ViewP(r.conn)
           p == LookupByName(P, r.userId, r.oldname)
       IN  req' = [req EXCEPT ![s] =
                IF p = NoId THEN [r EXCEPT !.pc = "ds_write"]
                ELSE [r EXCEPT !.pc = "ds_write", !.pid = p,
                               !.cstock = P[p].stock, !.cver = P[p].version]]
    /\ UNCHANGED <<products, sales, wlock, txp, txs, tc, started, nSucc>>
    /\ UNCHANGED <<online_users, txo>>

\* Variant of DsNewStock that subtracts instead of restoring.
DsNewStock_Subtract(r) == r.cstock - r.oldq

\* sales.py 704: the stock delete_sale writes.
DsNewStock(r) == r.cstock + r.oldq

\* Variant of DsDeleteSale that leaves the row in place.
DsDeleteSale_Keep(S, r) == S

\* sales.py 735-738: DELETE FROM sales WHERE id = ? AND userId = ?
DsDeleteSale(S, r) ==
    IF OwnedSale(S, r.id, r.userId) THEN [S EXCEPT ![r.id] = DeletedSale] ELSE S

\* sales.py 695-738: the conditional stock restoration (when the product
\* exists) and the DELETE of the sale row.
DsWrite(s) ==
    /\ req[s].pc = "ds_write"
    /\ LET r == req[s]
           c == r.conn
           P == ViewP(c)
           S == ViewS(c)
           n == IF r.pid = NoId THEN 0 ELSE RowCount(P, r.pid, r.userId, r.cver)
           nSale == IF OwnedSale(S, r.id, r.userId) THEN 1 ELSE 0
       IN  IF ~CanWrite(c)
           THEN \* busy on the UPDATE: inner handler, rollback, 500;
                \* busy on the DELETE: outer DatabaseBusyError handler, 503
                /\ req' = [req EXCEPT ![s] =
                      Finish(r, IF r.pid # NoId THEN "Unexpected" ELSE "StoreBusy")]
                /\ IF r.pid # NoId THEN RollbackStore(c)
                   ELSE UNCHANGED <<products, sales, wlock, txp, txs>>
                /\ UNCHANGED tc
           ELSE IF r.pid # NoId /\ n = 0
           THEN /\ req' = [req EXCEPT ![s] = Finish(r, "VersionConflict")]
                /\ AbortWrite(c, P, S)
                /\ UNCHANGED tc
           ELSE /\ req' = [req EXCEPT ![s].pc = "ds_commit"]
                /\ tc' = Bump(c, n + nSale)
                /\ txp' = IF r.pid = NoId THEN P
                          ELSE CondUpdate(P, r.pid, r.userId, r.cver, DsNewStock(r))
                /\ txs' = DsDeleteSale(S, r)
                /\ wlock' = c
                /\ UNCHANGED <<products, sales>>
    /\ UNCHANGED <<started, nSucc>>
    /\ UNCHANGED <<online_users, txo>>

\* sales.py 739-746: conn.commit() and the success response.
DsCommit(s) ==
    /\ req[s].pc = "ds_commit"
    /\ CommitStore(req[s].conn)
    /\ req' = [req EXCEPT ![s] = Finish(req[s], "ok")]
    /\ nSucc' = [p \in PIds |-> IF p = req[s].pid THEN nSucc[p] + 1 ELSE nSucc[p]]
    /\ UNCHANGED <<tc, started>>
    /\ UNCHANGED <<online_users, txo>>

\* sales.py 735-738 and 756-761: the DELETE raises a store error after the
\* stock restoration has been executed.  The statement is outside the inner
\* try: the outer handler answers 500 (503 for DatabaseBusyError) with no
\* rollback, and the connection goes back to the pool inside its
\* transaction.
DsDeleteError(s) ==
    /\ req[s].pc = "ds_write"
    /\ LET r == req[s]
           c == r.conn
           P == ViewP(c)
       IN  /\ r.pid # NoId
           /\ CanWrite(c)
           /\ RowCount(P, r.pid, r.userId, r.cver) = 1
           /\ \E outcome \in {"Unexpected", "StoreBusy"} :
                 req' = [req EXCEPT ![s] = Finish(r, outcome)]
           /\ tc' = Bump(c, 1)
           /\ txp' = CondUpdate(P, r.pid, r.userId, r.cver, DsNewStock(r))
           /\ wlock' = c
    /\ UNCHANGED <<products, sales, txs, started, nSucc>>
    /\ UNCHANGED <<online_users, txo>>

\* sales.py 739 and 756-761: conn.commit() raises.  The store either keeps
\* the transaction open (a busy store) or has rolled it back by itself (an
\* I/O error); the handler does neither.
DsCommitError(s) ==
    /\ req[s].pc = "ds_commit"
    /\ \E outcome \in {"Unexpected", "StoreBusy"} :
          req' = [req EXCEPT ![s] = Finish(req[s], outcome)]
    /\ \/ UNCHANGED <<products, sales, wlock, txp, txs>>
       \/ RollbackStore(req[s].conn)
    /\ UNCHANGED <<tc, started, nSucc>>
    /\ UNCHANGED <<online_users, txo>>

\* ---------------------------------------------------------------- update_product_stock
\* Variant of AsNewStock with the sign of the delta reversed.
AsNewStock_Subtract(r) == r.cstock - r.qty

\* products.py 583: the stock update_product_stock writes.
AsNewStock(r) == r.cstock + r.qty

\* Variant of AsInsufficient with the bound check left out.
AsInsufficient_NoCheck(r) == FALSE

\* products.py 586: the new stock would be negative.
AsInsufficient(r) == AsNewStock(r) < 0

\* Variant of AsVersionStale that only refuses a version behind the stored one.
AsVersionStale_OnlyOlder(v, stored) == v < stored

\* products.py 573: the supplied version is not the stored one.
AsVersionStale(v, stored) == stored # v

\* Variant of AsRead that checks the bound before the version.
AsRead_BoundFirst(s, c, u, p, d, v) ==
    /\ CanAccept(s, c)
    /\ LET r == [Accept(s, c, "adjustStock", u) EXCEPT !.id = p, !.qty = d, !.ver = v]
           P == ViewP(c)
           r1 == [r EXCEPT !.pid = p, !.cstock = P[p].stock, !.cver = P[p].version]
       IN  req' = [req EXCEPT ![s] =
                IF ~OwnedProduct(P, p, u) THEN NotFound(r)
                ELSE IF AsInsufficient(r1) THEN Finish(r1, "InsufficientStock")
                ELSE IF AsVersionStale(v, P[p].version) THEN Finish(r1, "VersionConflict")
                ELSE [r1 EXCEPT !.pc = "as_write"]]
    /\ started' = started + 1
    /\ UNCHANGED <<products, sales, wlock, txp, txs, tc, nSucc>>
    /\ UNCHANGED <<online_users, txo>>

\* products.py 554-590: read the product, compare the versions, check the bound.
AsRead(s, c, u, p, d, v) ==
    /\ CanAccept(s, c)
    /\ LET r == [Accept(s, c, "adjustStock", u) EXCEPT !.id = p, !.qty = d, !.ver = v]
           P == ViewP(c)
           r1 == [r EXCEPT !.pid = p, !.cstock = P[p].stock, !.cver = P[p].version]
       IN  req' = [req EXCEPT ![s] =
                IF ~OwnedProduct(P, p, u) THEN NotFound(r)
                ELSE IF AsVersionStale(v, P[p].version) THEN Finish(r1, "VersionConflict")
                ELSE IF AsInsufficient(r1) THEN Finish(r1, "InsufficientStock")
                ELSE [r1 EXCEPT !.pc = "as_write"]]
    /\ started' = started + 1
    /\ UNCHANGED <<products, sales, wlock, txp, txs, tc, nSucc>>
    /\ UNCHANGED <<online_users, txo>>

\* products.py 603: the test that decides whether the UPDATE took effect.
AsUpdateFailed(total_changes, rowcount) == total_changes = 0

\* Variant of AsWrite on a store that waits for the writer lock without a
\* time limit.
AsWrite_WaitsForLock(s) ==
    /\ req[s].pc = "as_write"
    /\ LET r == req[s]
           c == r.conn
           P == ViewP(c)
           n == RowCount(P, r.pid, r.userId, r.cver)
       IN  /\ CanWrite(c)
           /\ tc' = Bump(c, n)
           /\ txp' = CondUpdate(P, r.pid, r.userId, r.cver, AsNewStock(r))
           /\ wlock' = c
           /\ req' = [req EXCEPT ![s] =
                 IF AsUpdateFailed(tc'[c], n) THEN Finish(r, "VersionConflict")
                 ELSE [r EXCEPT !.pc = "as_commit"]]
           /\ UNCHANGED <<products, sales, txs>>
    /\ UNCHANGED <<started, nSucc>>
    /\ UNCHANGED <<online_users, txo>>

\* products.py 592-607: the conditional UPDATE and the test of its effect.
\* A busy store raises DatabaseBusyError, which the outer handler maps to
\* 503.  The 409 of line 604 is raised with the transaction left open.
AsWrite(s) ==
    /\ req[s].pc = "as_write"
    /\ LET r == req[s]
           c == r.conn
           P == ViewP(c)
           n == RowCount(P, r.pid, r.userId, r.cver)
       IN  IF ~CanWrite(c)
           THEN /\ req' = [req EXCEPT ![s] = Finish(r, "StoreBusy")]
                /\ UNCHANGED <<products, sales, wlock, txp, txs, tc>>
           ELSE /\ tc' = Bump(c, n)
                /\ txp' = CondUpdate(P, r.pid, r.userId, r.cver, AsNewStock(r))
                /\ wlock' = c
                /\ req' = [req EXCEPT ![s] =
                      IF AsUpdateFailed(tc'[c], n) THEN Finish(r, "VersionConflict")
                      ELSE [r EXCEPT !.pc = "as_commit"]]
                /\ UNCHANGED <<products, sales, txs>>
    /\ UNCHANGED <<started, nSucc>>
    /\ UNCHANGED <<online_users, txo>>

\* products.py 609: conn.commit()
AsCommit(s) ==
    /\ req[s].pc = "as_commit"
    /\ CommitStore(req[s].conn)
    /\ req' = [req EXCEPT ![s].pc = "as_fetch"]
    /\ UNCHANGED <<tc, started, nSucc>>
    /\ UNCHANGED <<online_users, txo>>

\* products.py 611-645: re-read the product by id and return it.
AsFetch(s) ==
    /\ req[s].pc = "as_fetch"
    /\ LET r == req[s]
           P == ViewP(r.conn)
       IN  IF P[r.pid].exists
           THEN /\ req' = [req EXCEPT ![s] =
                      Finish([r EXCEPT !.rstock = P[r.pid].stock,
                                       !.rver = P[r.pid].version], "ok")]
                /\ nSucc' = [nSucc EXCEPT ![r.pid] = @ + 1]
           ELSE /\ req' = [req EXCEPT ![s] = Finish(r, "Unexpected")]
                /\ UNCHANGED nSucc
    /\ UNCHANGED <<products, sales, wlock, txp, txs, tc, started>>
    /\ UNCHANGED <<online_users, txo>>

\* products.py 609 and 647-660: conn.commit() raises.  The outer handlers
\* answer 503 for DatabaseBusyError and 500 otherwise, with no rollback; the
\* store either keeps the transaction open or has rolled it back by itself.
AsCommitError(s) ==
    /\ req[s].pc = "as_commit"
    /\ \E outcome \in {"Unexpected", "StoreBusy"} :
          req' = [req EXCEPT ![s] = Finish(req[s], outcome)]
    /\ \/ UNCHANGED <<products, sales, wlock, txp, txs>>
       \/ RollbackStore(req[s].conn)
    /\ UNCHANGED <<tc, started, nSucc>>
    /\ UNCHANGED <<online_users, txo>>

\* ---------------------------------------------------------------- update_product
\* products.py 361-371: another product of the user already has the name.
NameTaken(P, u, n, p) ==
    \E q \in PIds : q # p /\ P[q].exists /\ P[q].userId = u /\ P[q].name = n

\* Variant of UniqueViolation for a table without the constraint.
UniqueViolation_NotEnforced(P, u, n, p) == FALSE

\* UNIQUE (userId, name) of table products: row p given name n for user u
\* would duplicate the name of another row of u.
UniqueViolation(P, u, n, p) ==
    \E q \in PIds : q # p /\ P[q].exists /\ P[q].userId = u /\ P[q].name = n

\* products.py 334-414: read the product, the optional version check, the
\* name check, and the check that some field is supplied.
UpRead(s, c, u, p, n, st, v, o) ==
    /\ CanAccept(s, c)
    /\ LET r == [Accept(s, c, "updateProduct", u) EXCEPT
                    !.id = p, !.name = n, !.stock = st, !.ver = v, !.other = o]
           P == ViewP(c)
           r1 == [r EXCEPT !.pid = p, !.cstock = P[p].stock, !.cver = P[p].version]
       IN  req' = [req EXCEPT ![s] =
                IF ~OwnedProduct(P, p, u) THEN NotFound(r)
                ELSE IF v # NoVer /\ v # P[p].version THEN Finish(r1, "VersionConflict")
                ELSE IF n # NoName /\ n # P[p].name /\ NameTaken(P, u, n, p)
                     THEN Finish(r1, "InvalidRequest")
                ELSE IF n = NoName /\ st = NoStock /\ ~o THEN Finish(r1, "InvalidRequest")
                ELSE [r1 EXCEPT !.pc = "up_write", !.other = FALSE]]
    /\ started' = started + 1
    /\ UNCHANGED <<products, sales, wlock, txp, txs, tc, nSucc>>
    /\ UNCHANGED <<online_users, txo>>

\* Variant of UpEditProduct that leaves the version as it is.
UpEditProduct_NoBump(P, r) ==
    IF OwnedProduct(P, r.pid, r.userId)
    THEN [P EXCEPT ![r.pid].name = IF r.name # NoName THEN r.name ELSE @,
                   ![r.pid].stock = IF r.stock # NoStock THEN r.stock ELSE @]
    ELSE P

\* products.py 416-428: UPDATE products SET <supplied fields>,
\* version = version + 1 WHERE id = ? AND userId = ?
UpEditProduct(P, r) ==
    IF OwnedProduct(P, r.pid, r.userId)
    THEN [P EXCEPT ![r.pid].name = IF r.name # NoName THEN r.name ELSE @,
                   ![r.pid].stock = IF r.stock # NoStock THEN r.stock ELSE @,
                   ![r.pid].version = @ + 1]
    ELSE P

\* products.py 422-428 and 464-471: the UPDATE; update_product has no
\* DatabaseBusyError handler, so a busy store ends in 500.  The name is
\* unique per user in the table: an UPDATE that would duplicate it fails
\* with the transaction left open.
UpWrite(s) ==
    /\ req[s].pc = "up_write"
    /\ LET r == req[s]
           c == r.conn
           P == ViewP(c)
           hit == OwnedProduct(P, r.pid, r.userId)
       IN  IF ~CanWrite(c)
           THEN /\ req' = [req EXCEPT ![s] = Finish(r, "Unexpected")]
                /\ UNCHANGED <<products, sales, wlock, txp, txs, tc>>
           ELSE IF hit /\ r.name # NoName /\ UniqueViolation(P, r.userId, r.name, r.pid)
           THEN /\ req' = [req EXCEPT ![s] = Finish(r, "Unexpected")]
                /\ wlock' = c
                /\ UNCHANGED <<products, sales, txp, txs, tc>>
           ELSE /\ req' = [req EXCEPT ![s].pc = "up_commit"]
                /\ tc' = Bump(c, IF hit THEN 1 ELSE 0)
                /\ txp' = UpEditProduct(P, r)
                /\ wlock' = c
                /\ UNCHANGED <<products, sales, txs>>
    /\ UNCHANGED <<started, nSucc>>
    /\ UNCHANGED <<online_users, txo>>

\* products.py 429: conn.commit()
UpCommit(s) ==
    /\ req[s].pc = "up_commit"
    /\ CommitStore(req[s].conn)
    /\ req' = [req EXCEPT ![s].pc = "up_fetch"]
    /\ UNCHANGED <<tc, started, nSucc>>
    /\ UNCHANGED <<online_users, txo>>

\* products.py 431-462: re-read the product by id and return it.
UpFetch(s) ==
    /\ req[s].pc = "up_fetch"
    /\ LET r == req[s]
           P == ViewP(r.conn)
       IN  IF P[r.pid].exists
           THEN /\ req' = [req EXCEPT ![s] =
                      Finish([r EXCEPT !.rstock = P[r.pid].stock,
                                       !.rver = P[r.pid].version], "ok")]
                /\ nSucc' = [nSucc EXCEPT ![r.pid] = @ + 1]
           ELSE /\ req' = [req EXCEPT ![s] = Finish(r, "Unexpected")]
                /\ UNCHANGED nSucc
    /\ UNCHANGED <<products, sales, wlock, txp, txs, tc, started>>
    /\ UNCHANGED <<online_users, txo>>

\* ---------------------------------------------------------------- create_product
\* products.py 226-238: the name must be new for the user.
CpRead(s, c, u, n, st) ==
    /\ CanAccept(s, c)
    /\ LET r == [Accept(s, c, "createProduct", u) EXCEPT !.name = n, !.stock = st]
           P == ViewP(c)
       IN  req' = [req EXCEPT ![s] =
                IF MatchByName(P, u, n) # {} THEN Finish(r, "InvalidRequest")
                ELSE [r EXCEPT !.pc = "cp_write"]]
    /\ started' = started + 1
    /\ UNCHANGED <<products, sales, wlock, txp, txs, tc, nSucc>>
    /\ UNCHANGED <<online_users, txo>>

\* products.py 252-266: the row create_product inserts.
NewProduct(r) ==
    [exists |-> TRUE, used |-> TRUE, userId |-> r.userId, name |-> r.name, stock |-> r.stock, version |-> 1]

\* products.py 252-267 and 303-310: the INSERT; a busy store or a duplicate
\* name ends in 500.
CpWrite(s) ==
    /\ req[s].pc = "cp_write"
    /\ LET r == req[s]
           c == r.conn
           P == ViewP(c)
           p == LastRowId(P, PIds)
       IN  IF ~CanWrite(c)
           THEN /\ req' = [req EXCEPT ![s] = Finish(r, "Unexpected")]
                /\ UNCHANGED <<products, sales, wlock, txp, txs, tc>>
           ELSE IF UniqueViolation(P, r.userId, r.name, p)
           THEN /\ req' = [req EXCEPT ![s] = Finish(r, "Unexpected")]
                /\ wlock' = c
                /\ UNCHANGED <<products, sales, txp, txs, tc>>
           ELSE /\ p \in PIds
                /\ req' = [req EXCEPT ![s].pc = "cp_commit", ![s].pid = p]
                /\ tc' = Bump(c, 1)
                /\ txp' = [P EXCEPT ![p] = NewProduct(r)]
                /\ wlock' = c
                /\ UNCHANGED <<products, sales, txs>>
    /\ UNCHANGED <<started, nSucc>>
    /\ UNCHANGED <<online_users, txo>>

\* products.py 268: conn.commit()
CpCommit(s) ==
    /\ req[s].pc = "cp_commit"
    /\ CommitStore(req[s].conn)
    /\ req' = [req EXCEPT ![s].pc = "cp_fetch"]
    /\ UNCHANGED <<tc, started, nSucc>>
    /\ UNCHANGED <<online_users, txo>>

\* products.py 270-301: re-read the product by id and return it.
CpFetch(s) ==
    /\ req[s].pc = "cp_fetch"
    /\ LET r == req[s]
           P == ViewP(r.conn)
       IN  req' = [req EXCEPT ![s] =
              IF P[r.pid].exists
              THEN Finish([r EXCEPT !.rstock = P[r.pid].stock,
                                    !.rver = P[r.pid].version], "ok")
              ELSE Finish(r, "Unexpected")]
    /\ UNCHANGED <<products, sales, wlock, txp, txs, tc, started, nSucc>>
    /\ UNCHANGED <<online_users, txo>>

\* ---------------------------------------------------------------- delete_product
\* products.py 493-505: the product must exist for the user.
DpRead(s, c, u, p) ==
    /\ CanAccept(s, c)
    /\ LET r == [Accept(s, c, "deleteProduct", u) EXCEPT !.id = p]
           P == ViewP(c)
       IN  req' = [req EXCEPT ![s] =
                IF ~OwnedProduct(P, p, u) THEN NotFound(r)
                ELSE [r EXCEPT !.pc = "dp_write", !.pid = p]]
    /\ started' = started + 1
    /\ UNCHANGED <<products, sales, wlock, txp, txs, tc, nSucc>>
    /\ UNCHANGED <<online_users, txo>>

\* Variant of DpWrite that also deletes the sales naming the product.
DpWrite_CascadeSales(s) ==
    /\ req[s].pc = "dp_write"
    /\ LET r == req[s]
           c == r.conn
           P == ViewP(c)
           S == ViewS(c)
           hit == OwnedProduct(P, r.pid, r.userId)
       IN  IF ~CanWrite(c)
           THEN /\ req' = [req EXCEPT ![s] = Finish(r, "Unexpected")]
                /\ UNCHANGED <<products, sales, wlock, txp, txs, tc>>
           ELSE /\ req' = [req EXCEPT ![s].pc = "dp_commit"]
                /\ tc' = Bump(c, IF hit THEN 1 ELSE 0)
                /\ txp' = IF hit THEN [P EXCEPT ![r.pid] = DeletedProduct] ELSE P
                /\ txs' = IF hit
                          THEN [i \in SIds |->
                                  IF /\ S[i].exists /\ S[i].userId = r.userId
                                     /\ S[i].productName = P[r.pid].name
                                  THEN DeletedSale ELSE S[i]]
                          ELSE S
                /\ wlock' = c
                /\ UNCHANGED <<products, sales>>
    /\ UNCHANGED <<started, nSucc>>
    /\ UNCHANGED <<online_users, txo>>

\* products.py 507-511: DELETE FROM products WHERE id = ? AND userId = ?
DpWrite(s) ==
    /\ req[s].pc = "dp_write"
    /\ LET r == req[s]
           c == r.conn
           P == ViewP(c)
           hit == OwnedProduct(P, r.pid, r.userId)
       IN  IF ~CanWrite(c)
           THEN /\ req' = [req EXCEPT ![s] = Finish(r, "Unexpected")]
                /\ UNCHANGED <<products, sales, wlock, txp, txs, tc>>
           ELSE /\ req' = [req EXCEPT ![s].pc = "dp_commit"]
                /\ tc' = Bump(c, IF hit THEN 1 ELSE 0)
                /\ txp' = IF hit THEN [P EXCEPT ![r.pid] = DeletedProduct] ELSE P
                /\ wlock' = c
                /\ UNCHANGED <<products, sales, txs>>
    /\ UNCHANGED <<started, nSucc>>
    /\ UNCHANGED <<online_users, txo>>

\* products.py 512-519: conn.commit() and the success response.
DpCommit(s) ==
    /\ req[s].pc = "dp_commit"
    /\ CommitStore(req[s].conn)
    /\ req' = [req EXCEPT ![s] = Finish(req[s], "ok")]
    /\ UNCHANGED <<tc, started, nSucc>>
    /\ UNCHANGED <<online_users, txo>>

\* ---------------------------------------------------------------- specification
\* The requests that arrive: a stock correction carries the largest delta,
\* up or down; an update_product supplies a name, a stock, some other field
\* or nothing, with or without a version.
Next ==
    \/ started < MaxReq /\ \E s \in AcceptSlots, c \in FreeConns, u \in Users, n \in Names, q \in 1..MaxQty :
          CsRead(s, c, u, n, q)
    \/ \E s \in Slots : CsWrite(s)
    \/ \E s \in Slots : CsCommit(s)
    \/ \E s \in Slots : CsFetch(s)
    \/ started < MaxReq /\ \E s \in AcceptSlots, c \in FreeConns, u \in Users, i \in SIds,
          n \in Names \cup {NoName}, q \in 0..MaxQty, o \in BOOLEAN :
          /\ o => (n = NoName /\ q = NoQty)
          /\ UsReadSale(s, c, u, i, n, q, o)
    \/ \E s \in Slots : UsReadProduct(s)
    \/ \E s \in Slots : UsWrite(s)
    \/ \E s \in Slots : UsCommit(s)
    \/ \E s \in Slots : UsFetch(s)
    \/ started < MaxReq /\ \E s \in AcceptSlots, c \in FreeConns, u \in Users, i \in SIds : DsReadSale(s, c, u, i)
    \/ \E s \in Slots : DsReadProduct(s)
    \/ \E s \in Slots : DsWrite(s)
    \/ \E s \in Slots : DsCommit(s)
    \/ started < MaxReq /\ \E s \in AcceptSlots, c \in FreeConns, u \in Users, p \in PIds,
          d \in {0 - MaxQty, MaxQty}, v \in 1..MaxVerArg :
          AsRead(s, c, u, p, d, v)
    \/ \E s \in Slots : AsWrite(s)
    \/ \E s \in Slots : AsCommit(s)
    \/ \E s \in Slots : AsFetch(s)
    \/ started < MaxReq /\ \E s \in AcceptSlots, c \in FreeConns, u \in Users, p \in PIds,
          n \in Names \cup {NoName}, st \in {NoStock, MaxQty},
          v \in 0..MaxVerArg, o \in BOOLEAN :
          /\ o => (n = NoName /\ st = NoStock)
          /\ n = NoName \/ st = NoStock
          /\ UpRead(s, c, u, p, n, st, v, o)
    \/ \E s \in Slots : UpWrite(s)
    \/ \E s \in Slots : UpCommit(s)
    \/ \E s \in Slots : UpFetch(s)
    \/ started < MaxReq /\ \E s \in AcceptSlots, c \in FreeConns, u \in Users, n \in Names, st \in {0, MaxQty} :
          CpRead(s, c, u, n, st)
    \/ \E s \in Slots : CpWrite(s)
    \/ \E s \in Slots : CpCommit(s)
    \/ \E s \in Slots : CpFetch(s)
    \/ started < MaxReq /\ \E s \in AcceptSlots, c \in FreeConns, u \in Users, p \in PIds : DpRead(s, c, u, p)
    \/ \E s \in Slots : DpWrite(s)
    \/ \E s \in Slots : DpCommit(s)

Spec == Init /\ [][Next]_vars

\* The same program on a store whose statements and commits may fail.
NextFault ==
    \/ Next
    \/ \E s \in Slots : DsDeleteError(s)
    \/ \E s \in Slots : DsCommitError(s)
    \/ \E s \in Slots : AsCommitError(s)

SpecFault == Init /\ [][NextFault]_vars

\* The sales and stock handlers alone: create_sale, update_sale, delete_sale
\* and update_product_stock, the requests contending for the same rows and
\* for the writer lock.
NextStock ==
    \/ started < MaxReq /\ \E s \in AcceptSlots, c \in FreeConns, u \in Users, n \in Names, q \in 1..MaxQty :
          CsRead(s, c, u, n, q)
    \/ \E s \in Slots : CsWrite(s)
    \/ \E s \in Slots : CsCommit(s)
    \/ \E s \in Slots : CsFetch(s)
    \/ started < MaxReq /\ \E s \in AcceptSlots, c \in FreeConns, u \in Users, i \in SIds,
          n \in Names \cup {NoName}, q \in 0..MaxQty, o \in BOOLEAN :
          /\ o => (n = NoName /\ q = NoQty)
          /\ UsReadSale(s, c, u, i, n, q, o)
    \/ \E s \in Slots : UsReadProduct(s)
    \/ \E s \in Slots : UsWrite(s)
    \/ \E s \in Slots : UsCommit(s)
    \/ \E s \in Slots : UsFetch(s)
    \/ started < MaxReq /\ \E s \in AcceptSlots, c \in FreeConns, u \in Users, i \in SIds : DsReadSale(s, c, u, i)
    \/ \E s \in Slots : DsReadProduct(s)
    \/ \E s \in Slots : DsWrite(s)
    \/ \E s \in Slots : DsCommit(s)
    \/ started < MaxReq /\ \E s \in AcceptSlots, c \in FreeConns, u \in Users, p \in PIds,
          d \in {0 - MaxQty, MaxQty}, v \in 1..MaxVerArg :
          AsRead(s, c, u, p, d, v)
    \/ \E s \in Slots : AsWrite(s)
    \/ \E s \in Slots : AsCommit(s)
    \/ \E s \in Slots : AsFetch(s)

\* The steps of the request in slot s after its arrival.
SlotStep(s) ==
    \/ CsWrite(s) \/ CsCommit(s) \/ CsFetch(s)
    \/ UsReadProduct(s) \/ UsWrite(s) \/ UsCommit(s) \/ UsFetch(s)
    \/ DsReadProduct(s) \/ DsWrite(s) \/ DsCommit(s)
    \/ AsWrite(s) \/ AsCommit(s) \/ AsFetch(s)

\* The serving layer runs every request it has accepted: a handler whose
\* next store call can return is not suspended forever.
Fairness == \A s \in Slots : WF_vars(SlotStep(s))

\* The databases of Init, with or without a transaction left open by an
\* earlier update_product_stock on connection 1: the request read A at
\* version 1, the sale of Init then took A to version 2, the request's UPDATE
\* matched no row with total_changes still 0, and its 409 (products.py 604)
\* left the block with the transaction open and the writer lock held.
InitLive ==
    /\ \E sa \in 0..1, q0 \in 0..1 :
         /\ products = InitProducts(sa, q0)
         /\ sales = InitSales(sa, q0)
         /\ nSucc = [p \in PIds |-> IF p = 1 /\ q0 # 0 THEN 1 ELSE 0]
         /\ wlock \in (IF q0 # 0 THEN {NoConn, 1} ELSE {NoConn})
    /\ txp = products
    /\ txs = sales
    /\ tc = [c \in Conns |-> IF c = 1 THEN 0 ELSE TCCap]
    /\ req = [s \in Slots |-> IdleReq]
    /\ started = 0
    /\ online_users = [u \in Users |-> NoOnline]
    /\ txo = online_users

SpecLive == InitLive /\ [][NextStock]_vars /\ Fairness

\* ---------------------------------------------------------------- online users
\* Rows of online_users a statement on connection c sees.
ViewO(c) == IF wlock = c THEN txo ELSE online_users

\* conn.commit() of a users handler.
CommitOnline(c) ==
    /\ CommitStore(c)
    /\ online_users' = IF wlock = c THEN txo ELSE online_users
    /\ UNCHANGED txo

\* INSERT OR REPLACE INTO online_users (userId, ..., current_action)
OnlineRow(a) == [exists |-> TRUE, current_action |-> a]

\* users.py 53-61: update_heartbeat's INSERT OR REPLACE; a busy store ends
\* in 500 (users.py 71-76).
HbWrite(s, c, u, a) ==
    /\ CanAccept(s, c)
    /\ LET r == [Accept(s, c, "heartbeat", u) EXCEPT !.action = a]
           O == ViewO(c)
       IN  IF ~CanWrite(c)
           THEN /\ req' = [req EXCEPT ![s] = Finish(r, "Unexpected")]
                /\ UNCHANGED <<wlock, txo, tc>>
           ELSE /\ req' = [req EXCEPT ![s] = [r EXCEPT !.pc = "hb_commit"]]
                /\ txo' = [O EXCEPT ![u] = OnlineRow(a)]
                /\ wlock' = c
                /\ tc' = Bump(c, 1)
    /\ started' = started + 1
    /\ UNCHANGED <<products, sales, txp, txs, online_users, nSucc>>

\* users.py 62-69: conn.commit() and the success response.
HbCommit(s) ==
    /\ req[s].pc = "hb_commit"
    /\ CommitOnline(req[s].conn)
    /\ req' = [req EXCEPT ![s] = Finish(req[s], "ok")]
    /\ UNCHANGED <<tc, started, nSucc>>

\* users.py 227: the test that decides whether the row must be inserted.
UaMustInsert(total_changes, rowcount) == total_changes = 0

\* users.py 215-234: update_current_action's UPDATE, the test of its effect
\* and the INSERT OR REPLACE when the test says no row was changed.
UaWrite(s, c, u, a) ==
    /\ CanAccept(s, c)
    /\ LET r == [Accept(s, c, "updateAction", u) EXCEPT !.action = a]
           O == ViewO(c)
           n == IF O[u].exists THEN 1 ELSE 0
           O1 == IF O[u].exists THEN [O EXCEPT ![u].current_action = a] ELSE O
           tc1 == Min(tc[c] + n, TCCap)
           ins == UaMustInsert(tc1, n)
       IN  IF ~CanWrite(c)
           THEN /\ req' = [req EXCEPT ![s] = Finish(r, "Unexpected")]
                /\ UNCHANGED <<wlock, txo, tc>>
           ELSE /\ req' = [req EXCEPT ![s] = [r EXCEPT !.pc = "ua_commit"]]
                /\ txo' = IF ins THEN [O1 EXCEPT ![u] = OnlineRow(a)] ELSE O1
                /\ wlock' = c
                /\ tc' = [tc EXCEPT ![c] = IF ins THEN Min(tc1 + 1, TCCap) ELSE tc1]
    /\ started' = started + 1
    /\ UNCHANGED <<products, sales, txp, txs, online_users, nSucc>>

\* users.py 236-243: conn.commit() and the success response.
UaCommit(s) ==
    /\ req[s].pc = "ua_commit"
    /\ CommitOnline(req[s].conn)
    /\ req' = [req EXCEPT ![s] = Finish(req[s], "ok")]
    /\ UNCHANGED <<tc, started, nSucc>>

\* users.py 272-281: clear_current_action's UPDATE ... SET current_action = NULL.
CaWrite(s, c, u) ==
    /\ CanAccept(s, c)
    /\ LET r == Accept(s, c, "clearAction", u)
           O == ViewO(c)
           n == IF O[u].exists THEN 1 ELSE 0
       IN  IF ~CanWrite(c)
           THEN /\ req' = [req EXCEPT ![s] = Finish(r, "Unexpected")]
                /\ UNCHANGED <<wlock, txo, tc>>
           ELSE /\ req' = [req EXCEPT ![s] = [r EXCEPT !.pc = "ca_commit"]]
                /\ txo' = IF O[u].exists THEN [O EXCEPT ![u].current_action = NoAction] ELSE O
                /\ wlock' = c
                /\ tc' = Bump(c, n)
    /\ started' = started + 1
    /\ UNCHANGED <<products, sales, txp, txs, online_users, nSucc>>

\* users.py 282-289: conn.commit() and the success response.
CaCommit(s) ==
    /\ req[s].pc = "ca_commit"
    /\ CommitOnline(req[s].conn)
    /\ req' = [req EXCEPT ![s] = Finish(req[s], "ok")]
    /\ UNCHANGED <<tc, started, nSucc>>

\* The presence handlers of the users router: update_heartbeat,
\* update_current_action and clear_current_action.
NextOnline ==
    \/ started < MaxReq /\ \E s \in AcceptSlots, c \in FreeConns, u \in Users, a \in Actions \cup {NoAction} :
          HbWrite(s, c, u, a)
    \/ \E s \in Slots : HbCommit(s)
    \/ started < MaxReq /\ \E s \in AcceptSlots, c \in FreeConns, u \in Users, a \in Actions :
          UaWrite(s, c, u, a)
    \/ \E s \in Slots : UaCommit(s)
    \/ started < MaxReq /\ \E s \in AcceptSlots, c \in FreeConns, u \in Users : CaWrite(s, c, u)
    \/ \E s \in Slots : CaCommit(s)

SpecOnline == Init /\ [][NextOnline]_vars

\* ---------------------------------------------------------------- properties
Done(s) == req[s].pc = "done"
Stepped(s) == req'[s] # req[s]
Quiescent == \A s \in Slots : ~InFlight(s)
NoRowBy(S, n) == \A i \in SIds : ~(S[i].exists /\ S[i].by = n)

\* C1: in every committed state, every product's stock is >= 0.
C1_StockNonNegative == \A p \in PIds : products[p].stock >= 0

\* C1 witness: a successful sale or stock correction has brought a
\* product's committed stock down to exactly 0.
C1_Witness ==
    \E s \in Slots :
        /\ Done(s) /\ req[s].out = "ok"
        /\ req[s].op \in {"createSale", "adjustStock"}
        /\ products[req[s].pid].stock = 0
        /\ products[req[s].pid].version = req[s].cver + 1
        /\ req[s].cstock > 0

\* An update_product_stock request that got as far as executing its UPDATE.
AsAttempted(r) ==
    /\ r.op = "adjustStock" /\ r.pc = "done" /\ r.pid # NoId
    /\ r.ver = r.cver /\ ~AsInsufficient(r)
    /\ r.out # "StoreBusy"

\* C2: of two update_product_stock requests on one product that both read
\* version V and both execute their UPDATE, exactly one returns success and
\* the other VersionConflict; afterwards the stock is the prior stock plus
\* the winner's delta and the version is V + 1.
C2_ExactlyOneWins ==
    \A s1, s2 \in Slots :
        ( /\ s1 # s2
          /\ AsAttempted(req[s1]) /\ AsAttempted(req[s2])
          /\ req[s1].pid = req[s2].pid /\ req[s1].cver = req[s2].cver )
        => \E w, l \in {s1, s2} :
              /\ w # l
              /\ req[w].out = "ok" /\ req[l].out = "VersionConflict"
              /\ products[req[w].pid].stock = req[w].cstock + req[w].qty
              /\ products[req[w].pid].version = req[w].cver + 1

\* A request about to execute a stock write computed from a product version
\* that a committed writer has meanwhile advanced.
StaleWriter(s) ==
    /\ req[s].pc \in {"cs_write", "us_write", "ds_write", "as_write"}
    /\ req[s].pid # NoId
    /\ req[s].pc = "us_write" => UsQuantityDiff(req[s]) # 0
    /\ CanWrite(req[s].conn)
    /\ products[req[s].pid].version # req[s].cver

\* C3: a request whose observed product version has been advanced by
\* another committed writer ends in VersionConflict and writes nothing, and
\* a commit changes a product's stock only if the version the request read
\* is the version it replaces.
C3_StaleWriterConflicts ==
    [][\A s \in Slots :
          /\ (StaleWriter(s) /\ Stepped(s))
                => (req'[s].out = "VersionConflict" /\ txp' = products /\ txs' = sales)
          /\ ( /\ req[s].pc \in {"cs_commit", "us_commit", "ds_commit", "as_commit"}
               /\ Stepped(s) /\ req[s].pid # NoId
               /\ products'[req[s].pid].stock # products[req[s].pid].stock )
                => products[req[s].pid].version = req[s].cver]_vars

\* C4: when no request is in flight, every product's version is 1 plus the
\* number of mutations of it that returned success.
C4_VersionCountsMutations ==
    Quiescent => \A p \in PIds : products[p].exists => products[p].version = 1 + nSucc[p]

\* C5: create_sale answers InsufficientStock exactly when the product it
\* found has less stock than the quantity, and then no row of either table
\* changes, committed or pending, and no sale row of the request exists.
C5_InsufficientStockAtomic ==
    [][\A s \in Slots :
          LET r == req'[s]
              p == LookupByName(products, r.userId, r.name)
          IN  /\ ( /\ started' = started + 1 /\ r.no = started'
                   /\ r.op = "createSale" /\ p # NoId )
                 => (r.out = "InsufficientStock" <=> products[p].stock < r.qty)
              /\ (Stepped(s) /\ r.op = "createSale" /\ r.out = "InsufficientStock")
                 => /\ UNCHANGED <<products, sales, txp, txs>>
                    /\ NoRowBy(sales', r.no) /\ NoRowBy(txs', r.no)]_vars

\* C5 witness: a create_sale was refused with InsufficientStock on a product
\* that exists.
C5_Witness ==
    \E s \in Slots :
        /\ Done(s) /\ req[s].op = "createSale" /\ req[s].out = "InsufficientStock"
        /\ LookupByName(products, req[s].userId, req[s].name) # NoId

\* C6: when create_sale's conditional UPDATE matches no row the request ends
\* in VersionConflict, and no sale row of a create_sale that ended in
\* VersionConflict is committed or left pending in a transaction.
C6_ConflictRollsBackSale ==
    [][\A s \in Slots :
          /\ ( /\ req[s].pc = "cs_write" /\ Stepped(s) /\ CanWrite(req[s].conn)
               /\ RowCount(ViewP(req[s].conn), req[s].pid, req[s].userId, req[s].cver) = 0 )
             => req'[s].out = "VersionConflict"
          /\ (req'[s].op = "createSale" /\ req'[s].out = "VersionConflict")
             => (NoRowBy(sales', req'[s].no) /\ NoRowBy(txs', req'[s].no))]_vars

\* C6 witness: a create_sale lost the race for its product and ended in
\* VersionConflict.
C6_Witness ==
    \E s \in Slots :
        /\ Done(s) /\ req[s].op = "createSale" /\ req[s].out = "VersionConflict"
        /\ products[req[s].pid].version # req[s].cver

\* C7: the commit of create_sale for quantity q, on a product that has stock
\* s >= q and version v, adds exactly one sale row (that quantity and product
\* name), sets the product's stock to s - q and its version to v + 1, and
\* changes nothing else.
C7_CreateSaleEffect ==
    [][\A s \in Slots :
          (req[s].pc = "cs_commit" /\ Stepped(s)) =>
             LET r == req[s]
                 old == products[r.pid]
             IN  /\ old.stock >= r.qty
                 /\ old.stock = r.cstock /\ old.version = r.cver
                 /\ products' = [products EXCEPT ![r.pid].stock = old.stock - r.qty,
                                                 ![r.pid].version = old.version + 1]
                 /\ ~sales[r.sid].exists
                 /\ sales'[r.sid].exists
                 /\ sales'[r.sid].quantity = r.qty
                 /\ sales'[r.sid].productName = r.name
                 /\ sales'[r.sid].userId = r.userId
                 /\ \A i \in SIds : i # r.sid => sales'[i] = sales[i]]_vars

\* C7 witness: a create_sale returned success; its row and its stock change
\* are committed.
C7_Witness ==
    \E s \in Slots :
        /\ Done(s) /\ req[s].op = "createSale" /\ req[s].out = "ok"
        /\ ~NoRowBy(sales, req[s].no)
        /\ products[req[s].pid].stock = req[s].cstock - req[s].qty

\* C8: the commit of delete_sale for a sale that is as create_sale inserted
\* it, on a product nothing has touched since (the product still has the
\* version the create left), puts the product's stock back to its value
\* before the create and removes the sale row.
C8_CreateDeleteRoundTrip ==
    [][\A s \in Slots :
          LET r == req[s]
              sale == sales[r.id]
          IN  ( /\ r.pc = "ds_commit" /\ Stepped(s)
                /\ sale.exists /\ sale.userId = r.userId
                /\ sale.quantity = sale.q0
                /\ r.pid # NoId /\ r.pid = sale.pid0
                /\ products[r.pid].version = sale.v1 )
              => /\ products'[r.pid].stock = sale.s0
                 /\ products'[r.pid].version = sale.v1 + 1
                 /\ ~sales'[r.id].exists]_vars

\* C8 witness: a delete_sale returned success after restoring the stock of
\* the product its sale was created on.
C8_Witness ==
    \E s \in Slots :
        /\ Done(s) /\ req[s].op = "deleteSale" /\ req[s].out = "ok"
        /\ req[s].pid # NoId
        /\ ~sales[req[s].id].exists
        /\ products[req[s].pid].stock = req[s].cstock + req[s].oldq
        /\ products[req[s].pid].version = req[s].cver + 1

\* C9: the commit of an update_sale that keeps the product and changes the
\* quantity of the stored sale from oldQuantity to newQuantity changes the
\* product's stock by oldQuantity - newQuantity, raises its version by 1,
\* stores newQuantity and changes no other product.
C9_SameProductEditDelta ==
    [][\A s \in Slots :
          LET r == req[s]
          IN  ( /\ r.pc = "us_commit" /\ Stepped(s)
                /\ ~UsNameChanged(r) /\ UsNewQuantity(r) # r.oldq
                /\ OwnedSale(sales, r.id, r.userId)
                /\ sales[r.id].quantity = r.oldq
                /\ sales[r.id].productName = r.oldname )
              => /\ sales'[r.id].quantity = UsNewQuantity(r)
                 /\ sales'[r.id].productName = r.oldname
                 /\ products' = [products EXCEPT
                       ![r.pid].stock = @ + r.oldq - UsNewQuantity(r),
                       ![r.pid].version = @ + 1]]_vars

\* C9 witness: an update_sale that kept the product and changed the quantity
\* returned success.
C9_Witness ==
    \E s \in Slots :
        /\ Done(s) /\ req[s].op = "updateSale" /\ req[s].out = "ok"
        /\ ~UsNameChanged(req[s]) /\ req[s].qty # NoQty /\ req[s].qty # req[s].oldq
        /\ sales[req[s].id].quantity = req[s].qty
        /\ products[req[s].pid].stock = req[s].cstock + req[s].oldq - req[s].qty

\* C10: the commit of an update_sale that moves a sale of oldQuantity from
\* product A to another product B with newQuantity raises A's stock by
\* oldQuantity and lowers B's stock by newQuantity.
C10_CrossProductEdit ==
    [][\A s \in Slots :
          LET r == req[s]
              a == LookupByName(products, r.userId, r.oldname)
          IN  ( /\ r.pc = "us_commit" /\ Stepped(s)
                /\ UsNameChanged(r) /\ a # NoId )
              => /\ products'[a].stock = products[a].stock + r.oldq
                 /\ products'[r.pid].stock = products[r.pid].stock - UsNewQuantity(r)]_vars

\* C11: when the conditional UPDATE of the new product of a cross-product
\* update_sale matches no row, the request ends in VersionConflict, the
\* restoration of the old product and the edit of the sale row are undone,
\* and the connection keeps no open transaction that could commit them.
C11_NewProductConflictRollsBack ==
    [][\A s \in Slots :
          LET r == req[s]
              P == ViewP(r.conn)
          IN  ( /\ r.pc = "us_write" /\ Stepped(s) /\ CanWrite(r.conn)
                /\ UsNameChanged(r) /\ UsQuantityDiff(r) # 0 /\ UsNewStock(r) >= 0
                /\ RowCount(UsRestoreOld(P, r), r.pid, r.userId, r.cver) = 0 )
              => /\ req'[s].out = "VersionConflict"
                 /\ UNCHANGED <<products, sales>>
                 /\ txp' = products /\ txs' = sales
                 /\ wlock' # r.conn]_vars

\* C11 witness: a cross-product update_sale found the old product, had its
\* sale row to edit, lost the race for the new product and ended in
\* VersionConflict; the sale row and the old product are as they were.
C11_Witness ==
    \E s \in Slots :
        LET r == req[s]
            a == LookupByName(products, r.userId, r.oldname)
        IN  /\ Done(s) /\ r.op = "updateSale" /\ r.out = "VersionConflict"
            /\ UsNameChanged(r) /\ UsQuantityDiff(r) # 0
            /\ r.pid # NoId /\ products[r.pid].version # r.cver
            /\ a # NoId /\ a # r.pid
            /\ OwnedSale(sales, r.id, r.userId)
            /\ sales[r.id].productName = r.oldname
            /\ sales[r.id].quantity = r.oldq
            /\ txp = products /\ txs = sales

\* C13: update_sale, once it has resolved its product, answers
\* InsufficientStock exactly when it raises the quantity and the product's
\* stock is less than newQuantity - oldQuantity; an update_sale that ends in
\* InsufficientStock leaves the sale row and every product unchanged,
\* committed and pending.
C13_EditInsufficientStock ==
    [][\A s \in Slots :
          LET r == req[s]
              p == LookupByName(products, r.userId, UsResolvedName(r))
          IN  /\ (r.pc = "us_read_product" /\ Stepped(s) /\ p # NoId)
                 => ( req'[s].out = "InsufficientStock"
                      <=> ( /\ UsNewQuantity(r) > r.oldq
                            /\ products[p].stock < UsNewQuantity(r) - r.oldq ) )
              /\ (Stepped(s) /\ req'[s].op = "updateSale"
                             /\ req'[s].out = "InsufficientStock")
                 => UNCHANGED <<products, sales, txp, txs>>]_vars

\* C13 witness: an update_sale that raised the quantity of its sale was
\* refused with InsufficientStock; the sale still has the old quantity.
C13_Witness ==
    \E s \in Slots :
        LET r == req[s]
            p == LookupByName(products, r.userId, UsResolvedName(r))
        IN  /\ Done(s) /\ r.op = "updateSale" /\ r.out = "InsufficientStock"
            /\ r.qty > r.oldq
            /\ p # NoId /\ products[p].stock < r.qty - r.oldq
            /\ OwnedSale(sales, r.id, r.userId) /\ sales[r.id].quantity = r.oldq

\* A step in which delete_sale fails after it has executed its
\* stock-restoring UPDATE.
DsFailsAfterRestore(s) ==
    /\ req[s].op = "deleteSale" /\ req[s].pc \in {"ds_write", "ds_commit"}
    /\ req[s].pid # NoId
    /\ Stepped(s)
    /\ req'[s].pc = "done" /\ req'[s].out # "ok"

\* C14: when delete_sale fails after its stock-restoring UPDATE was issued
\* (version conflict, or a store error on the DELETE or on the commit), the
\* failing step changes no committed row and leaves the request's connection
\* without an open transaction, so that the restoration is undone and no
\* later request can commit it.
C14_DeleteFailureRollsBack ==
    [][\A s \in Slots :
          DsFailsAfterRestore(s)
             => /\ UNCHANGED <<products, sales>>
                /\ wlock' # req[s].conn]_vars

\* C15: delete_sale of a sale whose product name matches no product of the
\* owner goes on to delete the row (unless the store is busy), and its commit
\* removes the sale row, returns success and changes no product.
C15_DeleteSaleWithoutProduct ==
    [][\A s \in Slots :
          LET r == req[s]
          IN  /\ ( /\ r.pc = "ds_write" /\ Stepped(s) /\ r.pid = NoId
                   /\ CanWrite(r.conn) )
                 => (req'[s].pc = "ds_commit" /\ UNCHANGED <<products, sales>>
                                              /\ txp' = products)
              /\ (r.pc = "ds_commit" /\ Stepped(s) /\ r.pid = NoId)
                 => /\ req'[s].out = "ok"
                    /\ products' = products
                    /\ ~sales'[r.id].exists
                    /\ \A i \in SIds : i # r.id => sales'[i] = sales[i]]_vars

\* C15 witness: a delete_sale whose sale named a product the owner no longer
\* has returned success; the row is gone.
C15_Witness ==
    \E s \in Slots :
        LET r == req[s]
        IN  /\ Done(s) /\ r.op = "deleteSale" /\ r.out = "ok"
            /\ r.pid = NoId /\ r.oldname # NoName
            /\ LookupByName(products, r.userId, r.oldname) = NoId
            /\ ~sales[r.id].exists /\ sales[r.id].used

\* C16: update_product_stock called with the product's current version
\* answers InsufficientStock exactly when stock + delta < 0, and then changes
\* nothing; otherwise, while the version it read stays current, its UPDATE is
\* accepted and its commit sets the stock to stock + delta and the version to
\* version + 1 and changes no other product and no sale.
C16_AdjustStockEffect ==
    [][\A s \in Slots :
          LET r == req[s]
              n == req'[s]
          IN  /\ ( /\ started' = started + 1 /\ n.no = started'
                   /\ n.op = "adjustStock"
                   /\ OwnedProduct(products, n.id, n.userId)
                   /\ n.ver = products[n.id].version )
                 => /\ n.out = "InsufficientStock"
                          <=> products[n.id].stock + n.qty < 0
                    /\ n.out \in {"InsufficientStock", "none"}
                    /\ UNCHANGED <<products, sales, txp, txs>>
              /\ ( /\ r.pc = "as_write" /\ Stepped(s) /\ CanWrite(r.conn)
                   /\ CondMatches(products, r.pid, r.userId, r.cver) )
                 => n.pc = "as_commit"
              /\ ( /\ r.pc = "as_commit" /\ Stepped(s)
                   /\ CondMatches(products, r.pid, r.userId, r.cver) )
                 => /\ products' = [products EXCEPT
                          ![r.pid].stock = r.cstock + r.qty,
                          ![r.pid].version = r.cver + 1]
                    /\ products[r.pid].stock = r.cstock
                    /\ sales' = sales]_vars

\* C16 witness: of two update_product_stock requests with the current
\* version, one was refused with InsufficientStock and the other returned the
\* product with stock + delta and version + 1.
C16_Witness ==
    \E s1, s2 \in Slots :
        LET a == req[s1]
            b == req[s2]
        IN  /\ Done(s1) /\ a.op = "adjustStock" /\ a.out = "InsufficientStock"
            /\ a.ver = a.cver /\ a.cstock + a.qty < 0
            /\ Done(s2) /\ b.op = "adjustStock" /\ b.out = "ok"
            /\ b.ver = b.cver /\ b.qty # 0
            /\ b.rstock = b.cstock + b.qty /\ b.rver = b.cver + 1
            /\ products[b.pid].stock = b.rstock
            /\ products[b.pid].version = b.rver

\* C17: update_product_stock called on a product of the caller with a
\* version other than the stored one ends at once in VersionConflict,
\* whatever the delta, and changes no row, committed or pending.
C17_StaleVersionRefused ==
    [][\A s \in Slots :
          LET n == req'[s]
          IN  ( /\ started' = started + 1 /\ n.no = started'
                /\ n.op = "adjustStock"
                /\ OwnedProduct(products, n.id, n.userId)
                /\ n.ver # products[n.id].version )
              => /\ n.pc = "done" /\ n.out = "VersionConflict"
                 /\ UNCHANGED <<products, sales, txp, txs, wlock>>]_vars

\* C17 witness: update_product_stock calls with a version ahead of the stored
\* one, and with a delta that the stock could not cover, ended in
\* VersionConflict; the product is as the request read it.
C17_Witness ==
    \E s \in Slots :
        LET r == req[s]
        IN  /\ Done(s) /\ r.op = "adjustStock" /\ r.out = "VersionConflict"
            /\ r.pid # NoId /\ r.ver > r.cver
            /\ r.cstock + r.qty < 0
            /\ products[r.pid].stock = r.cstock
            /\ products[r.pid].version = r.cver

\* The entity a request addresses by id exists and belongs to another user.
ForeignTarget(r) ==
    \/ /\ r.op \in {"adjustStock", "updateProduct", "deleteProduct"}
       /\ r.id \in PIds /\ products[r.id].exists
       /\ products[r.id].userId # r.userId
    \/ /\ r.op \in {"updateSale", "deleteSale"}
       /\ r.id \in SIds /\ sales[r.id].exists
       /\ sales[r.id].userId # r.userId

\* C18: update_product_stock, update_product, delete_product, update_sale or
\* delete_sale addressed to an existing product or sale of another user ends
\* at once in NotFound, whatever version and field values it carries, and
\* changes no row, committed or pending.
C18_ForeignIdIsNotFound ==
    [][\A s \in Slots :
          LET n == req'[s]
          IN  ( /\ started' = started + 1 /\ n.no = started'
                /\ ForeignTarget(n) )
              => /\ n.pc = "done" /\ n.out = "NotFound"
                 /\ UNCHANGED <<products, sales, txp, txs, wlock>>]_vars

\* C18 witness: an update_product_stock addressed to a product of another
\* user was answered NotFound; the product is still there.
C18_Witness ==
    \E s \in Slots :
        /\ Done(s) /\ req[s].op = "adjustStock" /\ req[s].out = "NotFound"
        /\ ForeignTarget(req[s])
        /\ txp = products

\* Between two states of a table, every row that belongs to a user other
\* than u is the same.
OthersRowsKept(T0, T1, Ids, u) ==
    \A i \in Ids :
        ( \/ T0[i].exists /\ T0[i].userId # u
          \/ T1[i].exists /\ T1[i].userId # u ) => T1[i] = T0[i]

SaleRowWritten(r) ==
    IF r.op = "createSale"
    THEN ~sales[r.sid].exists /\ sales'[r.sid].exists
    ELSE /\ OwnedSale(sales, r.id, r.userId)
         /\ r.op = "deleteSale" => ~sales'[r.id].exists

\* The handler of r pairs its sale-row write with a stock change.
StockChangePaired(r) ==
    \/ r.op = "createSale"
    \/ r.op = "updateSale" /\ UsQuantityDiff(r) # 0
    \/ r.op = "deleteSale" /\ r.pid # NoId

\* C20: every commit of create_sale, update_sale or delete_sale publishes the
\* request's sale-row write and its paired stock change together: never the
\* sale-row write without the stock change, never the stock change without
\* the sale-row write.
C20_SaleAndStockTogether ==
    [][\A s \in Slots :
          LET r == req[s]
          IN  ( /\ r.pc \in {"cs_commit", "us_commit", "ds_commit"}
                /\ Stepped(s) /\ StockChangePaired(r) )
              => (SaleRowWritten(r) <=> products'[r.pid] # products[r.pid])]_vars

\* C21: an update_sale that ends in an error has changed nothing: the step
\* that fixes the error changes no committed row and leaves no write of the
\* request pending on its connection, and the request has not committed a
\* stock change before it.
C21_FailedEditChangesNothing ==
    [][\A s \in Slots :
          LET r == req[s]
          IN  ( /\ Stepped(s) /\ req'[s].op = "updateSale"
                /\ req'[s].pc = "done" /\ req'[s].out # "ok" )
              => /\ UNCHANGED <<products, sales>>
                 /\ (r.conn # NoConn /\ wlock' = r.conn)
                       => (txp' = products /\ txs' = sales)
                 /\ ~(r.pc = "us_fetch" /\ UsQuantityDiff(r) # 0)]_vars

\* A request about to execute a write statement that the store refuses
\* because another connection's transaction holds the writer lock.
BusyAtWrite(s) ==
    /\ req[s].op \in {"createSale", "updateSale", "deleteSale", "adjustStock"}
    /\ req[s].pc \in {"cs_write", "us_write", "ds_write", "as_write"}
    /\ req[s].pc = "us_write" =>
          (req[s].name # NoName \/ req[s].qty # NoQty \/ req[s].other)
    /\ ~CanWrite(req[s].conn)

\* C22: when the store is busy at a statement of create_sale, update_sale,
\* delete_sale or update_product_stock, the statements of the transactional
\* block included, the request ends in StoreBusy.
C22_BusyIsStoreBusy ==
    [][\A s \in Slots :
          (BusyAtWrite(s) /\ Stepped(s)) => req'[s].out = "StoreBusy"]_vars

\* C23: a request that ends in StoreBusy has committed nothing and leaves
\* nothing to be committed: the step that fixes the outcome changes no
\* committed row, and no write of the request stays pending in an open
\* transaction of its connection, so that a resubmission cannot come on top
\* of the first attempt's effect.
C23_StoreBusyLeavesNothing ==
    [][\A s \in Slots :
          LET r == req[s]
          IN  ( /\ Stepped(s) /\ req'[s].pc = "done" /\ req'[s].out = "StoreBusy"
                /\ req'[s].op \in {"createSale", "updateSale", "deleteSale", "adjustStock"} )
              => /\ UNCHANGED <<products, sales>>
                 /\ (r.conn # NoConn /\ wlock' = r.conn)
                       => (txp' = products /\ txs' = sales)]_vars

\* An update_product request that supplied the version it then read.
UpAdmitted(r) ==
    /\ r.op = "updateProduct" /\ r.pc = "done" /\ r.pid # NoId
    /\ r.ver # NoVer /\ r.ver = r.cver

\* C24: of two update_product requests on one product that both supply the
\* version V they read, at most one returns success.
C24_UpdateProductOneWinner ==
    \A s1, s2 \in Slots :
        ( /\ s1 # s2
          /\ UpAdmitted(req[s1]) /\ UpAdmitted(req[s2])
          /\ req[s1].pid = req[s2].pid /\ req[s1].cver = req[s2].cver )
        => ~(req[s1].out = "ok" /\ req[s2].out = "ok")

\* C25: a commit changes a product's stock only when the version the
\* committing request read is still the stored version, so that no request,
\* update_product included, overwrites a stock value that another request
\* committed after it read the product.
C25_StockOnlyVersionConditioned ==
    [][\A s \in Slots :
          LET r == req[s]
          IN  ( /\ r.pc \in {"cs_commit", "us_commit", "ds_commit", "as_commit", "up_commit"}
                /\ Stepped(s) /\ r.pid # NoId
                /\ products[r.pid].exists /\ products'[r.pid].exists
                /\ products'[r.pid].stock # products[r.pid].stock )
              => /\ products[r.pid].version = r.cver
                 /\ products[r.pid].stock = r.cstock]_vars

\* C26: update_product on a product of the caller, with no version and at
\* least one field (and no name that another product of the caller has), is
\* admitted whatever the stored version is; on a writable store its UPDATE is
\* accepted, and its commit raises the stored version by exactly 1 and
\* changes no other product.
C26_UnversionedUpdateBumps ==
    [][\A s \in Slots :
          LET r == req[s]
              n == req'[s]
          IN  /\ ( /\ started' = started + 1 /\ n.no = started'
                   /\ n.op = "updateProduct" /\ n.ver = NoVer
                   /\ OwnedProduct(products, n.id, n.userId)
                   /\ (n.name # NoName \/ n.stock # NoStock)
                   /\ ~(n.name # NoName /\ NameTaken(products, n.userId, n.name, n.id)) )
                 => n.pc = "up_write"
              /\ ( /\ r.pc = "up_write" /\ Stepped(s) /\ r.ver = NoVer
                   /\ CanWrite(r.conn)
                   /\ ~(r.name # NoName /\ NameTaken(products, r.userId, r.name, r.pid)) )
                 => n.pc = "up_commit"
              /\ ( /\ r.pc = "up_commit" /\ Stepped(s) /\ r.ver = NoVer
                   /\ OwnedProduct(products, r.pid, r.userId) )
                 => /\ products'[r.pid].version = products[r.pid].version + 1
                    /\ \A q \in PIds : q # r.pid => products'[q] = products[q]]_vars

\* C26 witness: an update_product without a version, on a product whose
\* stored version was already past 1, returned the product with the version
\* raised by 1.
C26_Witness ==
    \E s \in Slots :
        LET r == req[s]
        IN  /\ Done(s) /\ r.op = "updateProduct" /\ r.out = "ok"
            /\ r.ver = NoVer /\ r.cver >= 2
            /\ r.rver = r.cver + 1
            /\ products[r.pid].version = r.rver

\* C27: create_sale naming a product the caller does not have (no such
\* product, or one of another user only) ends at once in InvalidReference,
\* inserts no sale row and changes no row, committed or pending.
C27_UnknownProductRefused ==
    [][\A s \in Slots :
          LET n == req'[s]
          IN  ( /\ started' = started + 1 /\ n.no = started'
                /\ n.op = "createSale"
                /\ \A p \in PIds : ~( /\ products[p].exists
                                      /\ products[p].userId = n.userId
                                      /\ products[p].name = n.name ) )
              => /\ n.pc = "done" /\ n.out = "InvalidReference"
                 /\ UNCHANGED <<products, sales, txp, txs, wlock>>
                 /\ NoRowBy(sales', n.no) /\ NoRowBy(txs', n.no)]_vars

\* C27 witness: a create_sale named a product that only another user has
\* and ended in InvalidReference.
C27_Witness ==
    \E s \in Slots :
        LET r == req[s]
        IN  /\ Done(s) /\ r.op = "createSale" /\ r.out = "InvalidReference"
            /\ \E p \in PIds : /\ products[p].exists /\ products[p].name = r.name
                               /\ products[p].userId # r.userId
            /\ NoRowBy(sales, r.no)

\* C28: in every committed state no two products of one user have the same
\* name.
C28_NamesUniquePerUser ==
    \A p, q \in PIds :
        ( /\ p # q /\ products[p].exists /\ products[q].exists
          /\ products[p].userId = products[q].userId )
        => products[p].name # products[q].name

\* C28 witness: of two concurrent create_product requests of one user for
\* the same name, both of which found the name free, one created the
\* product and the other failed at its INSERT.
C28_Witness ==
    \E s1, s2 \in Slots :
        LET a == req[s1]
            b == req[s2]
        IN  /\ s1 # s2
            /\ Done(s1) /\ a.op = "createProduct" /\ a.out = "ok"
            /\ Done(s2) /\ b.op = "createProduct" /\ b.out = "Unexpected"
            /\ a.userId = b.userId /\ a.name = b.name
            /\ products[a.pid].exists /\ products[a.pid].name = a.name
            /\ Cardinality(MatchByName(products, a.userId, a.name)) = 1

\* C29: no step of a delete_product or update_product request deletes or
\* changes a sale row, committed or pending: the sales that named the
\* product keep their productName and quantity.
C29_ProductChangeKeepsSales ==
    [][\A s \in Slots :
          (Stepped(s) /\ req'[s].op \in {"deleteProduct", "updateProduct"})
             => (sales' = sales /\ txs' = txs)]_vars

\* C29 witness: a delete_product, or an update_product that renamed the
\* product, has returned success; a sale still names the product by the old
\* name, which no product of the owner has any more.
C29_Witness ==
    \E s \in Slots, i \in SIds :
        LET r == req[s]
        IN  /\ Done(s) /\ r.out = "ok"
            /\ \/ r.op = "deleteProduct" /\ ~products[r.pid].exists
               \/ /\ r.op = "updateProduct" /\ r.name # NoName
                  /\ products[r.pid].name = r.name
            /\ sales[i].exists /\ sales[i].userId = r.userId
            /\ sales[i].pid0 = r.pid
            /\ sales[i].quantity = sales[i].q0
            /\ LookupByName(products, r.userId, sales[i].productName) = NoId

\* C30: a request in flight holds one connection of the pool, a request that
\* has yielded its outcome holds none, and the connections out of the pool
\* are as many as the requests in flight.
C30_ConnectionScoped ==
    /\ \A s \in Slots :
          /\ InFlight(s) => req[s].conn \in Conns
          /\ Done(s) => req[s].conn = NoConn
    /\ Cardinality(Conns \ FreeConns) = Cardinality({s \in Slots : InFlight(s)})

\* C30 witness: a request has ended on an error path after it wrote, its
\* transaction is still open on the connection, and the connection is back
\* in the pool while another request is in flight on another connection.
C30_Witness ==
    \E s1, s2 \in Slots :
        /\ Done(s1) /\ req[s1].out \in {"Unexpected", "StoreBusy"}
        /\ InFlight(s2)
        /\ wlock \in FreeConns

Outcomes ==
    {"ok", "NotFound", "InvalidReference", "InvalidRequest", "InsufficientStock",
     "VersionConflict", "StoreBusy", "Unexpected"}

StockOps == {"createSale", "updateSale", "deleteSale", "adjustStock"}

DsRestored(r) ==
    /\ r.op = "deleteSale" /\ r.pc = "done" /\ r.out = "ok"
    /\ r.pid # NoId

\* C32: of two delete_sale requests for the same sale, at most one adds the
\* sale's quantity back to the product's stock.
C32_DeleteRestoresOnce ==
    \A s1, s2 \in Slots :
        ( /\ s1 # s2
          /\ req[s1].userId = req[s2].userId /\ req[s1].id = req[s2].id )
        => ~(DsRestored(req[s1]) /\ DsRestored(req[s2]))

\* The quantities of the existing sales of user u that name n, summed over
\* the sale ids up to k.
RECURSIVE SoldUpTo(_, _, _, _)
SoldUpTo(S, u, n, k) ==
    IF k = 0 THEN 0
    ELSE SoldUpTo(S, u, n, k - 1)
         + (IF S[k].exists /\ S[k].userId = u /\ S[k].productName = n
            THEN S[k].quantity ELSE 0)

\* A product's stock plus the quantities of the existing sales naming it.
Balance(P, S, p) == P[p].stock + SoldUpTo(S, P[p].userId, P[p].name, MaxReq + 1)

\* Requests run one at a time: each request arrives after the one before it
\* has yielded its outcome, so every request is handled in the first slot.
OneAtATime == \A s \in Slots : s # 1 => (req[s].pc = "idle" /\ req'[s].pc = "idle")

\* The delta a step of the request in slot s applies by update_product_stock
\* to product p.
AppliedDelta(s, p) ==
    IF req[s].pc = "as_commit" /\ req[s].pid = p /\ wlock = req[s].conn
    THEN req[s].qty ELSE 0

\* C33: when requests run one at a time, every step of a create_sale, a
\* same-product update_sale, a delete_sale or an update_product_stock changes
\* the balance of a product (its stock plus the quantities of the existing
\* sales naming it) by the delta update_product_stock applies, and by nothing
\* otherwise; so the balance is the initial stock plus the applied deltas.
C33_SequentialConservation ==
    [][( /\ OneAtATime
         /\ req[1].op \in StockOps
         /\ ~(req[1].op = "updateSale" /\ UsNameChanged(req[1])) )
       => \A p \in PIds :
             ( /\ products[p].exists /\ products'[p].exists
               /\ products'[p].name = products[p].name )
             => Balance(products', sales', p)
                   = Balance(products, sales, p) + AppliedDelta(1, p)]_vars

\* C33 witness: two requests have run one after the other, the second a
\* same-product update_sale that changed the quantity of the sale created by
\* the first, and the product's stock is what it was before the sale less the
\* quantity the sale has now.
C33_Witness ==
    LET r == req[1]
    IN  /\ \A s \in Slots : s # 1 => req[s].pc = "idle"
        /\ started = 2 /\ r.no = 2
        /\ Done(1) /\ r.op = "updateSale" /\ r.out = "ok"
        /\ ~UsNameChanged(r) /\ UsQuantityDiff(r) # 0
        /\ sales[r.id].exists /\ sales[r.id].by = 1
        /\ sales[r.id].quantity = r.qty
        /\ products[r.pid].stock = sales[r.id].s0 - r.qty

\* An update_sale that keeps the product name, or a delete_sale.
SaleEdit(r) == r.op \in {"updateSale", "deleteSale"} /\ ~UsNameChanged(r)

\* C34: whatever the interleaving of update_sale and delete_sale requests on
\* a sale, no step of theirs changes the balance of a product: its stock plus
\* the quantities of the existing sales naming it stays what it was.
C34_ConcurrentConservation ==
    [][\A s \in Slots :
          ( /\ Stepped(s) /\ SaleEdit(req[s])
            /\ \A s2 \in Slots :
                  s2 # s => (SaleEdit(req[s2]) /\ req[s2].userId = req[s].userId
                             /\ req[s2].id = req[s].id) )
          => \A p \in PIds :
                ( /\ products[p].exists /\ products'[p].exists
                  /\ products'[p].name = products[p].name )
                => Balance(products', sales', p) = Balance(products, sales, p)]_vars

\* An update_sale request past its reads that changes neither the quantity
\* nor the product name of the sale.
UsPlainEdit(r) ==
    /\ r.op = "updateSale" /\ r.pc \in {"us_write", "us_commit", "us_fetch"}
    /\ r.oldq - (IF r.qty # NoQty THEN r.qty ELSE r.oldq) = 0
    /\ ~(r.name # NoName /\ r.name # r.oldname)

\* C35: an update_sale that changes neither the quantity nor the product
\* name writes no product row: none of its steps changes a committed product
\* or leaves a changed product pending in its transaction.
C35_PlainEditKeepsProducts ==
    [][\A s \in Slots :
          (Stepped(s) /\ UsPlainEdit(req[s]))
             => /\ products' = products
                /\ wlock' = req[s].conn => txp' = products]_vars

\* C35 witness: an update_sale that supplied only fields other than quantity
\* and product name has returned success; the sale and its product are as
\* the request read them.
C35_Witness ==
    \E s \in Slots :
        LET r == req[s]
        IN  /\ Done(s) /\ r.op = "updateSale" /\ r.out = "ok"
            /\ r.other /\ r.qty = NoQty /\ r.name = NoName
            /\ sales[r.id].exists /\ sales[r.id].quantity = r.oldq
            /\ products[r.pid].stock = r.cstock
            /\ products[r.pid].version = r.cver

\* The name update_sale resolves the product by: the supplied name when it
\* differs from the stored one, else the stored name.
UsTargetName(r) == IF r.name # NoName /\ r.name # r.oldname THEN r.name ELSE r.oldname

\* C36: an update_sale whose resolved product does not exist for the owner
\* is answered InvalidReference by the step that looks the product up, and
\* that step changes no row, committed or pending, whatever fields the
\* request supplies.
C36_MissingProductRefused ==
    [][\A s \in Slots :
          LET r == req[s]
          IN  ( /\ Stepped(s) /\ r.op = "updateSale" /\ r.pc = "us_read_product"
                /\ MatchByName(ViewP(r.conn), r.userId, UsTargetName(r)) = {} )
              => /\ req'[s].pc = "done" /\ req'[s].out = "InvalidReference"
                 /\ UNCHANGED <<products, sales, wlock, txp, txs>>]_vars

\* C36 witness: an update_sale that supplied only fields unrelated to stock
\* was answered InvalidReference: the sale is still there with the quantity
\* the request read, and no product of the owner has the name it carries.
C36_Witness ==
    \E s \in Slots :
        LET r == req[s]
        IN  /\ Done(s) /\ r.op = "updateSale" /\ r.out = "InvalidReference"
            /\ r.other /\ r.qty = NoQty /\ r.name = NoName
            /\ sales[r.id].exists /\ sales[r.id].quantity = r.oldq
            /\ sales[r.id].productName = r.oldname
            /\ MatchByName(products, r.userId, r.oldname) = {}

\* An update_sale about to run its block that moves the sale to another
\* product with another quantity while no product of the owner has the old
\* name any more, and that nothing else stops: the sale row is still there,
\* the store is not busy, the new product has the version the request read
\* and covers the difference.
UsMoveWithoutOld(r) ==
    /\ r.op = "updateSale" /\ r.pc = "us_write"
    /\ OwnedSale(ViewS(r.conn), r.id, r.userId)
    /\ r.name # NoName /\ r.name # r.oldname
    /\ r.qty # NoQty /\ r.qty # r.oldq
    /\ MatchByName(ViewP(r.conn), r.userId, r.oldname) = {}
    /\ CanWrite(r.conn)
    /\ CondMatches(ViewP(r.conn), r.pid, r.userId, r.cver)
    /\ r.cstock + (r.oldq - r.qty) >= 0

\* C37: a cross-product update_sale with a quantity change whose old product
\* no longer exists goes through: its block updates the sale row and changes
\* the stock and version of the new product only, restoring nothing.
C37_MoveWithoutOldProduct ==
    [][\A s \in Slots :
          LET r == req[s]
              P == ViewP(r.conn)
          IN  (Stepped(s) /\ UsMoveWithoutOld(r))
              => /\ req'[s].pc = "us_commit"
                 /\ txs'[r.id].exists
                 /\ txs'[r.id].productName = r.name /\ txs'[r.id].quantity = r.qty
                 /\ \A p \in PIds : p # r.pid => txp'[p] = P[p]
                 /\ txp'[r.pid].stock = r.cstock + (r.oldq - r.qty)
                 /\ txp'[r.pid].version = r.cver + 1]_vars

\* C37 witness: such an update_sale has returned success: the sale names the
\* new product with the new quantity, the new product has the stock and the
\* version the request wrote, and no product has the old name.
C37_Witness ==
    \E s \in Slots :
        LET r == req[s]
        IN  /\ Done(s) /\ r.op = "updateSale" /\ r.out = "ok"
            /\ r.name # NoName /\ r.name # r.oldname
            /\ r.qty # NoQty /\ r.qty # r.oldq
            /\ r.opid = NoId
            /\ MatchByName(products, r.userId, r.oldname) = {}
            /\ sales[r.id].exists
            /\ sales[r.id].productName = r.name /\ sales[r.id].quantity = r.qty
            /\ products[r.pid].name = r.name
            /\ products[r.pid].stock = r.cstock + (r.oldq - r.qty)
            /\ products[r.pid].version = r.cver + 1

\* An update_product_stock request that has ended and that found its product
\* with a version other than the supplied one and with a stock that the
\* delta would take below 0.
AsStaleAndShort(r) ==
    /\ r.op = "adjustStock" /\ r.pc = "done" /\ r.pid # NoId
    /\ r.ver # r.cver
    /\ r.cstock + r.qty < 0

\* C38: update_product_stock compares the versions before it checks the
\* bound: a request with a stale version whose delta would also take the
\* stock below 0 is answered VersionConflict, never InsufficientStock.
C38_VersionBeforeBound ==
    \A s \in Slots : AsStaleAndShort(req[s]) => req[s].out = "VersionConflict"

\* C38 witness: a request with a stale version and a delta below the
\* negated stock has been answered VersionConflict, and the product is as it
\* was read.
C38_Witness ==
    \E s \in Slots :
        LET r == req[s]
        IN  /\ AsStaleAndShort(r) /\ r.out = "VersionConflict"
            /\ products[r.pid].stock = r.cstock
            /\ products[r.pid].version = r.cver

\* C39: the product a successful update_product_stock returns is the state
\* the request wrote: the stock it read plus its delta, under the supplied
\* version plus 1.
C39_ReturnsOwnWrite ==
    \A s \in Slots :
        LET r == req[s]
        IN  (Done(s) /\ r.op = "adjustStock" /\ r.out = "ok")
            => (r.rstock = r.cstock + r.qty /\ r.rver = r.ver + 1)

\* C40: when update_current_action returns success for a user, the committed
\* online_users table holds a row of that user with the supplied
\* current_action.
C40_ActionRecorded ==
    [][\A s \in Slots :
          LET r == req[s]
          IN  ( /\ Stepped(s) /\ r.op = "updateAction"
                /\ req'[s].pc = "done" /\ req'[s].out = "ok" )
              => /\ online_users'[r.userId].exists
                 /\ online_users'[r.userId].current_action = r.action]_vars

====
